---- MODULE Spec2Model ----
(***************************************************************************)
(* distill-feed: the concurrent processing pipeline (pipeline.run and its  *)
(* process_one workers), the dual-protocol LLM client and the content      *)
(* cache, as a state machine.  One step is the code between two awaits     *)
(* that touch state shared between workers (the semaphore, the shared      *)
(* LLMClient's api_used); awaits on state private to one item (its own     *)
(* cache entries, its own ItemResult) are folded into the step they end.   *)
(***************************************************************************)
EXTENDS Integers, Sequences, FiniteSets, TLC

\* ------------------------------------------------------------------ bounds
MaxItems == 2
MaxConcurrency == 2
MaxRetries == 3
MaxPuts == 2
MaxNormalize == 2
MaxCandidates == 3
MaxDate == 2
MaxCap == 2
MaxRuns == 2

\* ------------------------------------------------------- values and enums
None == "None"

\* models.ItemStatus
SELECTED == "selected"
SUMMARIZED == "summarized"
SKIPPED == "skipped"
FAILED == "failed"

\* models.LLMApiUsed
RESPONSES == "responses"
CHAT_COMPLETIONS == "chat_completions"

\* the native generateContent transport (no LLMApiUsed member of its own)
GEMINI == "gemini_generate_content"

\* prompts.PROMPT_VERSION, the discriminator of the summary namespace
PROMPT_VERSION == "1.0"

\* Candidate URLs; an item is identified by its URL (deduplicate leaves the
\* candidates with pairwise distinct URLs).
Urls == 1..MaxItems

\* ------------------------------------------------------------- the cache
\* A cache entry is a file: missing, holding a string, or holding bytes that
\* are not valid UTF-8 (what a put cut short by a full disk leaves behind).
Absent == "<absent>"
Undecodable == "<undecodable>"

HtmlBody == "<html>body</html>"
HugeHtmlBody == "<html>huge</html>"
ExtractedText == "body"

\* mutant: the ceiling applies to every namespace
TooLarge_AnyNamespace(namespace, data) == data = HugeHtmlBody

\* cache.FileCache.put: the html namespace drops payloads above
\* max_html_bytes; HugeHtmlBody stands for such a payload.
TooLarge(namespace, data) == namespace = "html" /\ data = HugeHtmlBody

\* Texts with line ends: carriage return and line feed, a lone carriage
\* return, a line feed
CrLfText == "line<CR><LF>line"
CrText == "line<CR>line"
LfText == "line<LF>line"

\* Path.write_text(data, encoding="utf-8"): the text is written as it is
\* (newline=None writes "\n" as os.linesep, which is "\n" on POSIX)
WriteText(data) == data

\* Path.read_text(encoding="utf-8"): newline=None reads in universal
\* newlines mode, "\r\n" and "\r" are returned as "\n"
ReadText(file) == IF file \in {CrLfText, CrText} THEN LfText ELSE file

\* mutant: every URL of a namespace is kept in one file
PathFor_OneFile(namespace, url) == 1

\* cache.FileCache._path_for: the file of a URL in the directory of the
\* namespace, named by the digest of the URL and the discriminator, which a
\* namespace never varies: one file for each URL
PathFor(namespace, url) == url

CachePut(c, namespace, url, data) ==
    IF TooLarge(namespace, data)
    THEN c
    ELSE [c EXCEPT ![namespace][PathFor(namespace, url)] = WriteText(data)]

\* cache.FileCache.get: [raised, value]; value None for a missing entry.
\* read_text raises UnicodeDecodeError on undecodable bytes, which is a
\* ValueError, not the OSError that get catches.
CacheGet(c, namespace, url) ==
    IF c[namespace][PathFor(namespace, url)] = Absent THEN [raised |-> FALSE, value |-> None]
    ELSE IF c[namespace][PathFor(namespace, url)] = Undecodable THEN [raised |-> TRUE, value |-> None]
    ELSE [raised |-> FALSE, value |-> ReadText(c[namespace][PathFor(namespace, url)])]

\* Python truthiness of an optional string
Truthy(s) == s # None /\ s # ""

\* ------------------------------------------------------------ exceptions
\* An exception raised by the OpenAI SDK or the transport: the status_code
\* attribute (0 when the exception has none) and str(exc).
NoExc == [status_code |-> 0, message |-> None]
UnicodeDecodeError == [status_code |-> 0, message |-> "utf-8 codec: invalid start byte"]

ApiErrors ==
    { [status_code |-> 404, message |-> "Not Found"],
      [status_code |-> 405, message |-> "Method Not Allowed"],
      [status_code |-> 400, message |-> "Responses API Not Supported"],
      [status_code |-> 0, message |-> "Unsupported endpoint"],
      [status_code |-> 500, message |-> "Internal Server Error"] }

\* str.lower() followed by splitting at the blanks: the words of the
\* lower-cased message.
LowerWords(message) ==
    CASE message = "Not Found" -> <<"not", "found">>
      [] message = "Method Not Allowed" -> <<"method", "not", "allowed">>
      [] message = "Responses API Not Supported" ->
             <<"responses", "api", "not", "supported">>
      [] message = "Unsupported endpoint" -> <<"unsupported", "endpoint">>
      [] message = "Internal Server Error" -> <<"internal", "server", "error">>
      [] OTHER -> <<>>

\* The phrase (a sequence of words) occurs in the words of the message.
ContainsPhrase(words, phrase) ==
    \E k \in 1..Len(words) :
        /\ k + Len(phrase) - 1 <= Len(words)
        /\ \A j \in 1..Len(phrase) : words[k + j - 1] = phrase[j]

\* mutant: only a 404 triggers the fallback
ShouldFallback_Only404(exc) == exc.status_code = 404

\* mutant: every error triggers the fallback
ShouldFallback_Always(exc) == exc.status_code >= 0

\* LLMClient._should_fallback
ShouldFallback(exc) ==
    \/ exc.status_code \in {404, 405}
    \/ ContainsPhrase(LowerWords(exc.message), <<"not", "supported">>)
    \/ ContainsPhrase(LowerWords(exc.message), <<"unsupported">>)

\* --------------------------------------------------------- summary parser
ValidJson == "{title:T,one_sentence:S}"
DumpedJson == "{title:T,one_sentence:S,summary_bullets:[],confidence:0.0}"
BadJson == "Sorry, I cannot summarize this"
BadSchema == "{one_sentence:S}"

NoSummary == [present |-> FALSE, title |-> None]
SummaryT == [present |-> TRUE, title |-> "T"]

\* mutant: every text parses as a summary
ParseSummary_AcceptsAll(raw) == [ok |-> TRUE, summary |-> SummaryT, error |-> None]

\* schemas.parse_summary: [ok, summary, error]; error is str(SummaryParseError)
ParseSummary(raw) ==
    CASE raw \in {ValidJson, DumpedJson} ->
             [ok |-> TRUE, summary |-> SummaryT, error |-> None]
      [] raw = BadSchema ->
             [ok |-> FALSE, summary |-> NoSummary,
              error |-> "schema_validation_error:title"]
      [] OTHER ->
             [ok |-> FALSE, summary |-> NoSummary,
              error |-> "json_decode_error:Expecting value"]

\* ArticleSummary.model_dump_json
ModelDumpJson(summary) == DumpedJson

\* f"json_parse_error_after_repair:{exc}"
AfterRepairError(detail) ==
    CASE detail = "schema_validation_error:title" ->
             "json_parse_error_after_repair:schema_validation_error:title"
      [] OTHER ->
             "json_parse_error_after_repair:json_decode_error:Expecting value"

\* ----------------------------------------------------------- the records
\* models.FetchResult; status_code 0 stands for None
NoFetch ==
    [set |-> FALSE, status_code |-> 0, html |-> None, error |-> None,
     from_cache |-> FALSE]
FetchResult(status_code, html, error, from_cache) ==
    [set |-> TRUE, status_code |-> status_code, html |-> html, error |-> error,
     from_cache |-> from_cache]

\* models.ExtractionResult
NoExtraction == [set |-> FALSE, content |-> "", error |-> None, from_cache |-> FALSE]
ExtractionResult(content, error, from_cache) ==
    [set |-> TRUE, content |-> content, error |-> error, from_cache |-> from_cache]

\* models.ItemResult
ItemResult(status, url) ==
    [status |-> status, url |-> url, skip_reason |-> None, fetch |-> NoFetch,
     extraction |-> NoExtraction, summary |-> NoSummary, error |-> None,
     token_usage |-> None, timings |-> {}]

\* mutant: the dry-run record is a failed one
ToItemResult_Failed(url) == ItemResult(FAILED, url)

\* pipeline._to_item_result
ToItemResult(url) == ItemResult(SELECTED, url)

\* mutant: process_one starts from the dry-run record
InitialResult_Selected(url) == ItemResult(SELECTED, url)

\* The ItemResult process_one starts from (pipeline.py:94)
InitialResult(url) == ItemResult(FAILED, url)

\* The record of a skipped item (pipeline.py:61)
SkippedRecord(skipped) ==
    [ItemResult(SKIPPED, skipped.url) EXCEPT !.skip_reason = skipped.reason]

\* ----------------------------------------------------------- the config
\* config.Config.base_url as urlparse(base_url.lower()) splits it: the
\* labels of the netloc and the non-empty segments of the path
OpenAiUrl == [host |-> <<"api", "openai", "com">>, path |-> <<"v1">>]
GeminiUrl ==
    [host |-> <<"generativelanguage", "googleapis", "com">>, path |-> <<"v1beta">>]
GeminiCompatUrl ==
    [host |-> <<"generativelanguage", "googleapis", "com">>,
     path |-> <<"v1beta", "openai">>]
BaseUrls == {OpenAiUrl, GeminiUrl, GeminiCompatUrl}

\* "generativelanguage.googleapis.com"
GeminiHost == <<"generativelanguage", "googleapis", "com">>

\* mutant: the path of the base URL is not looked at
IsGeminiNativeBaseUrl_HostOnly(base_url) == ContainsPhrase(base_url.host, GeminiHost)

\* LLMClient._is_gemini_native_base_url: the host contains the native host
\* (a substring test) and no path segment is "openai"
IsGeminiNativeBaseUrl(base_url) ==
    IF ~ContainsPhrase(base_url.host, GeminiHost)
    THEN FALSE
    ELSE ~(\E k \in 1..Len(base_url.path) : base_url.path[k] = "openai")

\* Config.validate_concurrency admits every value >= 1
Configs ==
    [concurrency : 1..MaxConcurrency, dry_run : BOOLEAN,
     api_key : {None, "", "k"}, base_url : BaseUrls]

\* Config.api_key_value
ApiKeyValue(cfg) == cfg.api_key

\* ------------------------------------------------------------- variables
VARIABLES
    config,          \* the validated Config of the run
    selected_items,  \* select_items' first result, in its order
    skipped_items,   \* select_items' second result
    run_pc,          \* where pipeline.run is
    item_records,    \* run's item_records list
    report,          \* the RunReport run returns
    digest_writes,   \* number of write_digest calls
    semaphore,       \* asyncio.Semaphore._value
    pc,              \* per selected item: where its process_one task is
    result,          \* per selected item: process_one's local ItemResult
    call,            \* per selected item: its summarize / _call_with_fallback
    api_used,        \* LLMClient.api_used of the run's one client
    cache,           \* the FileCache directory: namespace -> url -> entry
    retries,         \* config.retries
    answers,         \* what the transport answered to attempt 1, 2, ...
    fetcher,         \* a fetch_article call, attempt by attempt
    gemini,          \* a _call_gemini_generate_content call, attempt by attempt
    completed,       \* the selected items in the order their process_one returned
    cache_call,      \* the last call of FileCache.put / FileCache.get
    url_in,          \* normalize_url's argument
    normalized,      \* normalize_url(url_in), normalize_url of that, ...
    items,           \* deduplicate's argument: feed_items + direct_items
    since,           \* select_items' since, parsed (0: None)
    max_items,       \* select_items' max_items (0: None)
    ingest_pc,       \* where run is between parse_feeds and process_one
    deduped,         \* deduplicate's result, run's all_candidates
    selected,        \* select_items' first result
    skipped,         \* select_items' second result
    argv,            \* the options of the command line
    cli_pc,          \* where main and the digest command are
    outcome,         \* what asyncio.run(run(config)) ended with
    stderr,          \* the lines written to stderr
    stdout,          \* the number of reports written to stdout
    exit_code,       \* the exit code of the process
    previous         \* the earlier runs over this cache directory: what
                     \* each ended with, item by item

\* The state of the ingestion functions, called on their own
ingestVars ==
    <<url_in, normalized, items, since, max_items, ingest_pc, deduped, selected,
      skipped>>

\* The state of the command line
cliVars == <<argv, cli_pc, outcome, stderr, stdout, exit_code>>

\* No ingestion function called
IngestIdle ==
    /\ url_in = <<>>
    /\ normalized = <<>>
    /\ items = <<>>
    /\ since = 0
    /\ max_items = 0
    /\ ingest_pc = "idle"
    /\ deduped = <<>>
    /\ selected = <<>>
    /\ skipped = <<>>

\* An option that was not given (click passes None)
Unset == 0 - 99

\* No command line
CliIdle ==
    /\ argv = [max_items |-> Unset, concurrency |-> Unset, since |-> None,
               json_output |-> FALSE, feeds_file |-> None, usage_error |-> FALSE]
    /\ cli_pc = "idle"
    /\ outcome = None
    /\ stderr = <<>>
    /\ stdout = 0
    /\ exit_code = Unset

\* The state of the two retry loops, followed attempt by attempt, and of the
\* cache called on its own
netVars ==
    <<retries, answers, fetcher, gemini, cache_call, ingestVars, cliVars,
      previous>>

vars ==
    <<config, selected_items, skipped_items, run_pc, item_records, report,
      digest_writes, semaphore, pc, result, call, api_used, cache, retries,
      answers, fetcher, gemini, completed, cache_call, url_in, normalized,
      items, since, max_items, ingest_pc, deduped, selected, skipped, argv,
      cli_pc, outcome, stderr, stdout, exit_code, previous>>

Namespaces == {"html", "text", "summary", "meta"}

\* What earlier runs left in the cache directory for one URL
ColdEntry == [html |-> Absent, text |-> Absent, summary |-> Absent, meta |-> Absent]
WarmEntry ==
    [html |-> HtmlBody, text |-> ExtractedText, summary |-> DumpedJson, meta |-> Absent]
StaleSummaryEntry ==
    [html |-> HtmlBody, text |-> ExtractedText, summary |-> BadJson, meta |-> Absent]
\* entries cut short in the middle of a character
BrokenEntries ==
    { [html |-> Undecodable, text |-> Absent, summary |-> Absent, meta |-> Absent],
      [html |-> HtmlBody, text |-> Undecodable, summary |-> Absent, meta |-> Absent],
      [html |-> HtmlBody, text |-> ExtractedText, summary |-> Undecodable,
       meta |-> Absent] }

\* The cache directories a run starts from: every URL cold, warm or with a
\* stale summary, or one URL with a broken entry and the others cold
CacheProfiles ==
    { [u \in Urls |-> e] : e \in {ColdEntry, WarmEntry, StaleSummaryEntry} }
    \cup { [u \in Urls |-> IF u = b THEN e ELSE ColdEntry] :
              b \in Urls, e \in BrokenEntries }

SkipReasons == {"older_than_since", "max_items_limit"}

NoReport ==
    [built |-> FALSE, items |-> <<>>, total_selected |-> 0, success_count |-> 0,
     failure_count |-> 0, skip_count |-> 0, api_used |-> None]

\* round_trips counts the calls of _call_with_fallback the item's summarize
\* has made; first_raw is the raw_text the repair prompt embeds
NoCall ==
    [prompt |-> None, start |-> None, sent |-> <<>>, exc |-> NoExc,
     first_raw |-> None, usage |-> None, round_trips |-> 0]

\* mutant: the skipped items count as selected
Selected_AllCandidates ==
    {selected_items[k] : k \in 1..Len(selected_items)}
        \cup {skipped_items[k].url : k \in 1..Len(skipped_items)}

Selected == {selected_items[k] : k \in 1..Len(selected_items)}

\* config.Config.retries, its default
DefaultRetries == 3

\* A fetch_article call before its first statement: the loop variable, the
\* GETs issued, the sleeps made (in milliseconds), the locals status_code and
\* last_error, the FetchResult returned, and the result of an earlier fetch
\* of the same URL
IdleFetcher ==
    [pc |-> "idle", attempt |-> 0, gets |-> 0, sleeps |-> <<>>, status_code |-> 0,
     last_error |-> None, result |-> NoFetch, first |-> NoFetch]

\* No put was made
NoPut == [set |-> FALSE, namespace |-> None, key |-> 0, data |-> None]

\* No call of the cache yet: the operation, its arguments, what it returned
\* or whether it raised, the last put before it, the puts made so far
NoCacheCall ==
    [op |-> None, namespace |-> None, key |-> 0, data |-> None, value |-> None,
     raised |-> FALSE, put |-> NoPut, puts |-> 0]

\* A _call_gemini_generate_content call before its loop
IdleGemini ==
    [pc |-> "idle", attempt |-> 0, posts |-> 0, sleeps |-> <<>>, outcome |-> None]

\* mutant: the results come in the reverse order
MapSeq_Reversed(f, s) == [k \in 1..Len(s) |-> f[s[Len(s) + 1 - k]]]

\* mutant: the results are listed as the tasks returned
MapSeq_Completed(f, s) ==
    [k \in 1..Len(s) |-> f[IF Len(completed) = Len(s) THEN completed[k] ELSE s[k]]]

\* mutant: the new records are put in front
Extend_AtFront(records, more) == more \o records

\* list.extend (pipeline.py:74, 188)
Extend(records, more) == records \o more

\* The sequence of f[s[k]] for k in 1..Len(s)
MapSeq(f, s) == [k \in 1..Len(s) |-> f[s[k]]]

Init ==
    /\ config \in Configs
    /\ \E n \in 0..MaxItems : \E m \in n..MaxItems : \E reason \in SkipReasons :
          /\ selected_items = [k \in 1..n |-> k]
          /\ skipped_items = [k \in 1..(m - n) |-> [url |-> n + k, reason |-> reason]]
    /\ run_pc = "selected"
    /\ item_records = [k \in 1..Len(skipped_items) |-> SkippedRecord(skipped_items[k])]
    /\ report = NoReport
    /\ digest_writes = 0
    /\ semaphore = 0
    /\ pc = [u \in Urls |-> "none"]
    /\ result = [u \in Urls |-> ItemResult(None, u)]
    /\ call = [u \in Urls |-> NoCall]
    /\ api_used = None
    /\ \E profile \in CacheProfiles :
          cache = [ns \in Namespaces |-> [u \in Urls |-> profile[u][ns]]]
    /\ retries = DefaultRetries
    /\ answers = <<>>
    /\ fetcher = IdleFetcher
    /\ gemini = IdleGemini
    /\ completed = <<>>
    /\ cache_call = NoCacheCall
    /\ previous = <<>>
    /\ IngestIdle
    /\ CliIdle

\* ------------------------------------------------------------ the report
CountStatus(records, status) ==
    Cardinality({k \in 1..Len(records) : records[k].status = status})

\* mutant: total_selected counts every record
BuildReport_TotalCountsAll(records, used) ==
    [built |-> TRUE,
     items |-> records,
     total_selected |-> Len(records),
     success_count |-> CountStatus(records, SUMMARIZED),
     failure_count |-> CountStatus(records, FAILED),
     skip_count |-> CountStatus(records, SKIPPED),
     api_used |-> used]

\* report.build_report
BuildReport(records, used) ==
    [built |-> TRUE,
     items |-> records,
     total_selected |-> Len(records) - CountStatus(records, SKIPPED),
     success_count |-> CountStatus(records, SUMMARIZED),
     failure_count |-> CountStatus(records, FAILED),
     skip_count |-> CountStatus(records, SKIPPED),
     api_used |-> used]

\* mutant: a client exists for every credential that is not None
HasClient_NotNone == ApiKeyValue(config) # None

\* pipeline.py:86: a client exists only for a non-empty credential
HasClient == Truthy(ApiKeyValue(config))

\* --------------------------------------------------------- pipeline.run
\* pipeline.py:73-84: the dry-run branch, no await in it
DryRun ==
    /\ run_pc = "selected"
    /\ config.dry_run
    /\ item_records' =
           Extend(item_records,
                  [k \in 1..Len(selected_items) |-> ToItemResult(selected_items[k])])
    /\ report' = BuildReport(item_records', None)
    /\ digest_writes' = digest_writes + 1
    /\ run_pc' = "returned"
    /\ UNCHANGED <<config, selected_items, skipped_items, semaphore, pc, result,
                   call, api_used, cache>>
    /\ UNCHANGED <<netVars, completed>>

\* pipeline.py:86-87 and the task creation of gather (pipeline.py:187)
Launch ==
    /\ run_pc = "selected"
    /\ ~config.dry_run
    /\ semaphore' = config.concurrency
    /\ pc' = [u \in Urls |-> IF u \in Selected THEN "pending" ELSE "none"]
    /\ run_pc' = "gather"
    /\ UNCHANGED <<config, selected_items, skipped_items, item_records, report,
                   digest_writes, result, call, api_used, cache>>
    /\ UNCHANGED <<netVars, completed>>

\* mutant: the join returns as soon as one task has returned
GatherDone_FirstCompleted == \E u \in Selected : pc[u] = "returned"

\* asyncio.gather returns when every task has returned
GatherDone == \A u \in Selected : pc[u] = "returned"

\* asyncio.gather re-raises the first exception of a task
GatherRaises == \E u \in Selected : pc[u] = "raised"

\* pipeline.py:187-199: gather returns, the report is built, the digest written
Finish ==
    /\ run_pc = "gather"
    /\ GatherDone
    /\ item_records' = Extend(item_records, MapSeq(result, selected_items))
    /\ report' = BuildReport(item_records', IF HasClient THEN api_used ELSE None)
    /\ digest_writes' = digest_writes + 1
    /\ run_pc' = "returned"
    /\ UNCHANGED <<config, selected_items, skipped_items, semaphore, pc, result,
                   call, api_used, cache>>
    /\ UNCHANGED <<netVars, completed>>

Holding(u) == pc[u] \in {"fetch", "extract", "summarize", RESPONSES, CHAT_COMPLETIONS, GEMINI}

\* pipeline.py:187: an exception of a task leaves run through gather; the
\* tasks still running are cancelled when the event loop shuts down and
\* leave their `async with semaphore`.
Abort ==
    /\ run_pc = "gather"
    /\ GatherRaises
    /\ run_pc' = "raised"
    /\ pc' = [u \in Urls |->
                 IF pc[u] = "pending" \/ Holding(u) THEN "cancelled" ELSE pc[u]]
    /\ semaphore' = semaphore + Cardinality({u \in Urls : Holding(u)})
    /\ UNCHANGED <<config, selected_items, skipped_items, item_records, report,
                   digest_writes, result, call, api_used, cache>>
    /\ UNCHANGED <<netVars, completed>>

\* ---------------------------------------------------------- process_one
\* mutant: the semaphore never blocks
CanAcquire_NeverBlocks == TRUE

\* asyncio.Semaphore.acquire does not block
CanAcquire == semaphore > 0

\* `return result` inside `async with semaphore` (pipeline.py:109,131,136,177,185)
Return(u, r) ==
    /\ pc' = [pc EXCEPT ![u] = "returned"]
    /\ result' = [result EXCEPT ![u] = r]
    /\ semaphore' = semaphore + 1
    /\ completed' = Append(completed, u)

\* an exception leaving process_one through `async with semaphore`
Raise(u, exc) ==
    /\ pc' = [pc EXCEPT ![u] = "raised"]
    /\ call' = [call EXCEPT ![u].exc = exc]
    /\ semaphore' = semaphore + 1
    /\ UNCHANGED <<result, api_used, cache, completed>>

\* The tasks created before the task of u (gather creates them in the
\* order of selected_items) that still wait for the semaphore
WaitingBefore(u) ==
    {v \in Selected : pc[v] = "pending" /\
        \E j, k \in 1..Len(selected_items) :
            selected_items[j] = v /\ selected_items[k] = u /\ j < k}

\* pipeline.py:92-103: the semaphore is taken (asyncio.Semaphore serves its
\* waiters first-in first-out), the result created, fetch awaited
Acquire(u) ==
    /\ pc[u] = "pending"
    /\ CanAcquire
    /\ WaitingBefore(u) = {}
    /\ semaphore' = semaphore - 1
    /\ result' = [result EXCEPT ![u] = InitialResult(u)]
    /\ pc' = [pc EXCEPT ![u] = "fetch"]
    /\ UNCHANGED <<config, selected_items, skipped_items, run_pc, item_records,
                   report, digest_writes, call, api_used, cache>>
    /\ UNCHANGED <<netVars, completed>>

\* Python's `a or b` on optional strings
Or(a, b) == IF Truthy(a) THEN a ELSE b

\* What the retry loop of fetch_article ends with: a response below 400
\* with its body (within the html size ceiling, empty, or above the
\* ceiling), or an error (str of the last exception, or http_error:<n>)
NetOutcomes ==
    { [ok |-> TRUE, status_code |-> 200, body |-> HtmlBody, error |-> None],
      [ok |-> TRUE, status_code |-> 200, body |-> "", error |-> None],
      [ok |-> TRUE, status_code |-> 200, body |-> HugeHtmlBody, error |-> None],
      [ok |-> FALSE, status_code |-> 404, body |-> None, error |-> "http_error:404"],
      [ok |-> FALSE, status_code |-> 0, body |-> None, error |-> ""] }

\* fetcher.fetch_article: [raised, fetch, cache]
FetchArticle(c, url, net) ==
    LET cached_html == CacheGet(c, "html", url) IN
    IF cached_html.raised
    THEN [raised |-> TRUE, fetch |-> NoFetch, cache |-> c]
    ELSE IF Truthy(cached_html.value)
    THEN [raised |-> FALSE, fetch |-> FetchResult(200, cached_html.value, None, TRUE),
          cache |-> c]
    ELSE IF net.ok
    THEN [raised |-> FALSE, fetch |-> FetchResult(net.status_code, net.body, None, FALSE),
          cache |-> CachePut(c, "html", url, net.body)]
    ELSE [raised |-> FALSE,
          fetch |-> FetchResult(net.status_code, None,
                                Or(net.error, "fetch_failed"), FALSE),
          cache |-> c]

\* mutant: an empty body is not a failure
FetchFailed_ErrorOnly(fetch) == Truthy(fetch.error)

\* pipeline.py:106
FetchFailed(fetch) == Truthy(fetch.error) \/ ~Truthy(fetch.html)

\* pipeline.py:103-112: fetch_article returns
FetchReturn(u) ==
    /\ pc[u] = "fetch"
    /\ \E net \in NetOutcomes :
          LET f == FetchArticle(cache, u, net)
              timed == [result[u] EXCEPT !.fetch = f.fetch, !.timings = {"fetch_ms"}]
          IN  IF f.raised
              THEN Raise(u, UnicodeDecodeError)
              ELSE /\ cache' = f.cache
                   /\ UNCHANGED <<call, api_used>>
                   /\ IF FetchFailed(f.fetch)
                      THEN Return(u, [timed EXCEPT
                                        !.error = Or(f.fetch.error, "fetch_failed")])
                      ELSE /\ pc' = [pc EXCEPT ![u] = "extract"]
                           /\ result' = [result EXCEPT ![u] = timed]
                           /\ UNCHANGED <<semaphore, completed>>
    /\ UNCHANGED <<config, selected_items, skipped_items, run_pc, item_records,
                   report, digest_writes>>
    /\ UNCHANGED netVars

\* What extractor.extract_content returns (it catches every exception)
ExtractOutcomes ==
    { ExtractionResult(ExtractedText, None, FALSE),
      ExtractionResult("", "empty_extraction", FALSE),
      ExtractionResult("", "extract_error:boom", FALSE) }

\* pipeline.py:128
ExtractionFailed(extraction) == Truthy(extraction.error) \/ ~Truthy(extraction.content)

\* pipeline.py:112-142: the text cache is read, the content extracted and
\* cached; then the credential check and the read of the summary cache
ExtractReturn(u) ==
    /\ pc[u] = "extract"
    /\ LET cached_text == CacheGet(cache, "text", u) IN
       IF cached_text.raised
       THEN Raise(u, UnicodeDecodeError)
       ELSE \E fresh \in ExtractOutcomes :
          LET extraction ==
                  IF Truthy(cached_text.value)
                  THEN ExtractionResult(cached_text.value, None, TRUE)
                  ELSE fresh
              stored ==
                  IF ~Truthy(cached_text.value) /\ ~Truthy(extraction.error)
                     /\ Truthy(extraction.content)
                  THEN CachePut(cache, "text", u, extraction.content)
                  ELSE cache
              timed == [result[u] EXCEPT
                          !.extraction = extraction,
                          !.timings = result[u].timings \cup {"extract_ms"}]
          IN  /\ cache' = stored
              /\ UNCHANGED <<call, api_used>>
              /\ IF ExtractionFailed(extraction)
                 THEN Return(u, [timed EXCEPT
                                   !.error = Or(extraction.error, "extract_failed")])
                 ELSE IF ~HasClient
                 THEN Return(u, [timed EXCEPT !.error = "missing_api_key"])
                 ELSE /\ pc' = [pc EXCEPT ![u] = "summarize"]
                      /\ result' = [result EXCEPT ![u] = timed]
                      /\ UNCHANGED <<semaphore, completed>>
    /\ UNCHANGED <<config, selected_items, skipped_items, run_pc, item_records,
                   report, digest_writes>>
    /\ UNCHANGED netVars

\* ------------------------------------------------------------ LLMClient
IsGeminiNative == IsGeminiNativeBaseUrl(config.base_url)

\* LLMClient._call_with_fallback, lines 202-211: the request a call sends
\* first, given the dialect remembered when the call starts
FirstRequest(native, remembered) ==
    IF native THEN GEMINI
    ELSE IF remembered = CHAT_COMPLETIONS THEN CHAT_COMPLETIONS
    ELSE RESPONSES

\* mutant: the fallback is tried whatever dialect is remembered
FallsBack_IgnoresRemembered(remembered, exc) == ShouldFallback(exc)

\* LLMClient._call_with_fallback, lines 212-215: a failed responses request
\* is followed by a chat request only in the branch without remembered
\* dialect, and only for a fallback trigger
FallsBack(remembered, exc) == remembered = None /\ ShouldFallback(exc)

Request(api, prompt) == [api |-> api, prompt |-> prompt]

\* A call of _call_with_fallback starts: the remembered dialect is read and
\* the first request sent
StartCall(u, prompt, remembered, first_raw, usage) ==
    /\ call' = [call EXCEPT ![u] =
                   [prompt |-> prompt, start |-> remembered,
                    sent |-> <<Request(FirstRequest(IsGeminiNative, remembered), prompt)>>,
                    exc |-> NoExc, first_raw |-> first_raw, usage |-> usage,
                    round_trips |-> call[u].round_trips + 1]]
    /\ pc' = [pc EXCEPT ![u] = FirstRequest(IsGeminiNative, remembered)]

\* pipeline.py:179-185
\* mutant: the parsed summary is not stored on the record
Summarized_NoSummary(r, summary, usage) ==
    [r EXCEPT !.status = SUMMARIZED, !.token_usage = usage,
              !.timings = r.timings \cup {"summarize_ms"}]

Summarized(r, summary, usage) ==
    [r EXCEPT !.status = SUMMARIZED, !.summary = summary, !.token_usage = usage,
              !.timings = r.timings \cup {"summarize_ms"}]

\* mutant: an exception of summarize leaves process_one
SummarizeFailed_Propagates(u, exc) == Raise(u, exc)

\* pipeline.py:173-177: every exception of summarize is recorded on the item
SummarizeFailed(u, exc) ==
    /\ Return(u, [result[u] EXCEPT !.error = exc.message,
                                   !.timings = result[u].timings \cup {"summarize_ms"}])
    /\ UNCHANGED <<call, cache>>

\* pipeline.py:140-156: the summary cache answers; on a miss (or an entry
\* that does not parse) LLMClient.summarize sends its first request
SummarizeLookup(u) ==
    /\ pc[u] = "summarize"
    /\ LET cached_summary == CacheGet(cache, "summary", u)
           parsed == ParseSummary(cached_summary.value)
       IN  IF cached_summary.raised
           THEN Raise(u, UnicodeDecodeError)
           ELSE IF Truthy(cached_summary.value) /\ parsed.ok
           THEN /\ Return(u, Summarized(result[u], parsed.summary, None))
                /\ UNCHANGED <<call, api_used, cache>>
           ELSE /\ StartCall(u, "first", api_used, None, None)
                /\ UNCHANGED <<result, semaphore, api_used, cache, completed>>
    /\ UNCHANGED <<config, selected_items, skipped_items, run_pc, item_records,
                   report, digest_writes>>
    /\ UNCHANGED netVars

\* What a completion request ends with: a text, or an exception
LlmTexts == {ValidJson, BadJson, BadSchema}

\* mutant: an output that does not parse is repaired again and again
AfterCall_RepairsAgain(u, raw, remembered) ==
    LET parsed == ParseSummary(raw) IN
    IF parsed.ok
    THEN /\ Return(u, Summarized(result[u], parsed.summary, "usage"))
         /\ cache' = CachePut(cache, "summary", u, ModelDumpJson(parsed.summary))
         /\ UNCHANGED call
    ELSE /\ StartCall(u, "repair", remembered, raw, "usage")
         /\ UNCHANGED <<result, semaphore, cache, completed>>

\* LLMClient.summarize, lines 230-245, after _call_with_fallback returned
\* raw text (and the client remembers `remembered`), and pipeline.py:166-185
AfterCall(u, raw, remembered) ==
    LET parsed == ParseSummary(raw) IN
    IF parsed.ok
    THEN /\ Return(u, Summarized(result[u], parsed.summary,
                                 IF call[u].prompt = "first" THEN "usage"
                                 ELSE call[u].usage))
         /\ cache' = CachePut(cache, "summary", u, ModelDumpJson(parsed.summary))
         /\ UNCHANGED call
    ELSE IF call[u].prompt = "first"
    THEN /\ StartCall(u, "repair", remembered, raw, "usage")
         /\ UNCHANGED <<result, semaphore, cache, completed>>
    ELSE SummarizeFailed(u, [status_code |-> 0,
                             message |-> AfterRepairError(parsed.error)])

\* LLMClient._call_responses returns or raises (lines 101-110, 210-215)
ResponsesReturn(u) ==
    /\ pc[u] = RESPONSES
    /\ \/ \E raw \in LlmTexts :
             /\ api_used' = RESPONSES
             /\ AfterCall(u, raw, RESPONSES)
       \/ \E exc \in ApiErrors :
             /\ UNCHANGED api_used
             /\ IF FallsBack(call[u].start, exc)
                THEN /\ pc' = [pc EXCEPT ![u] = CHAT_COMPLETIONS]
                     /\ call' = [call EXCEPT
                           ![u].sent = Append(@, Request(CHAT_COMPLETIONS, call[u].prompt)),
                           ![u].exc = exc]
                     /\ UNCHANGED <<result, semaphore, cache, completed>>
                ELSE SummarizeFailed(u, exc)
    /\ UNCHANGED <<config, selected_items, skipped_items, run_pc, item_records,
                   report, digest_writes>>
    /\ UNCHANGED netVars

\* LLMClient._call_chat returns or raises (lines 112-121)
ChatReturn(u) ==
    /\ pc[u] = CHAT_COMPLETIONS
    /\ \/ \E raw \in LlmTexts :
             /\ api_used' = CHAT_COMPLETIONS
             /\ AfterCall(u, raw, CHAT_COMPLETIONS)
       \/ \E exc \in ApiErrors :
             /\ UNCHANGED api_used
             /\ SummarizeFailed(u, exc)
    /\ UNCHANGED <<config, selected_items, skipped_items, run_pc, item_records,
                   report, digest_writes>>
    /\ UNCHANGED netVars

\* The RuntimeErrors of _call_gemini_generate_content
GeminiErrors ==
    { [status_code |-> 0, message |-> "gemini_http_error:503"],
      [status_code |-> 0, message |-> "gemini_no_candidates"] }

\* LLMClient._call_gemini_generate_content returns or raises (lines 123-199)
GeminiReturn(u) ==
    /\ pc[u] = GEMINI
    /\ \/ \E raw \in LlmTexts :
             /\ api_used' = CHAT_COMPLETIONS
             /\ AfterCall(u, raw, CHAT_COMPLETIONS)
       \/ \E exc \in GeminiErrors :
             /\ UNCHANGED api_used
             /\ SummarizeFailed(u, exc)
    /\ UNCHANGED <<config, selected_items, skipped_items, run_pc, item_records,
                   report, digest_writes>>
    /\ UNCHANGED netVars

\* ---------------------------------------------------- the specification
Next ==
    \/ DryRun
    \/ Launch
    \/ Finish
    \/ Abort
    \/ \E u \in Urls : Acquire(u)
    \/ \E u \in Urls : FetchReturn(u)
    \/ \E u \in Urls : ExtractReturn(u)
    \/ \E u \in Urls : SummarizeLookup(u)
    \/ \E u \in Urls : ResponsesReturn(u)
    \/ \E u \in Urls : ChatReturn(u)
    \/ \E u \in Urls : GeminiReturn(u)

Spec == Init /\ [][Next]_vars

\* The event loop runs every task that can run, and every request is
\* answered (by a response or an exception).
FairSpec == Spec /\ WF_vars(Next)

\* ------------------------------------------------------------ run again
\* The command started again with the same options over the cache
\* directory that the earlier runs left: run from its first line, a new
\* LLMClient, the same selection.

\* What a run ended with for an item: the status and the summary of its
\* record, the body fetched, the number of requests made to the LLM
Ended(r, summarize) ==
    [status |-> r.status, summary |-> r.summary, html |-> r.fetch.html,
     round_trips |-> summarize.round_trips]

Rerun ==
    /\ run_pc \in {"returned", "raised"}
    /\ Len(previous) < MaxRuns - 1
    /\ previous' = Append(previous, [u \in Urls |-> Ended(result[u], call[u])])
    /\ run_pc' = "selected"
    /\ item_records' = [k \in 1..Len(skipped_items) |-> SkippedRecord(skipped_items[k])]
    /\ report' = NoReport
    /\ digest_writes' = 0
    /\ semaphore' = 0
    /\ pc' = [u \in Urls |-> "none"]
    /\ result' = [u \in Urls |-> ItemResult(None, u)]
    /\ call' = [u \in Urls |-> NoCall]
    /\ api_used' = None
    /\ completed' = <<>>
    /\ UNCHANGED <<config, selected_items, skipped_items, cache, retries, answers,
                   fetcher, gemini, cache_call, ingestVars, cliVars>>

RerunNext == Next \/ Rerun

\* One candidate, selected, and any configuration and cache directory
RerunInit ==
    /\ Init
    /\ Len(selected_items) = 1
    /\ skipped_items = <<>>

RerunSpec == RerunInit /\ [][RerunNext]_vars

\* ------------------------------------------------------ the retry loops
\* fetch_article and _call_gemini_generate_content attempt by attempt, for
\* one URL and one prompt, against a transport that gives the k-th attempt
\* of either loop the same answer.

\* The pipeline's variables, which the retry loops do not touch
runVars ==
    <<config, selected_items, skipped_items, run_pc, item_records, report,
      digest_writes, semaphore, pc, result, call, api_used, completed,
      ingestVars, cliVars, previous>>

\* The URL fetched
TheUrl == 1

\* What client.get / client.post ends with: an httpx.Response, an
\* httpx.TimeoutException / httpx.RequestError (their str is often empty),
\* or another exception
Response(status_code, text) ==
    [kind |-> "response", status_code |-> status_code, text |-> text, message |-> None]
TimeoutException ==
    [kind |-> "timeout", status_code |-> 0, text |-> None, message |-> ""]
OtherException ==
    [kind |-> "exception", status_code |-> 0, text |-> None, message |-> "boom"]

Answers ==
    { Response(200, HtmlBody), Response(200, ""), Response(200, HugeHtmlBody),
      Response(302, HtmlBody), Response(404, None), Response(429, None),
      Response(503, None), TimeoutException, OtherException }

\* The answer to attempt k: the one already given to the other loop (or to
\* an earlier fetch), or a new one
AnswerTo(k) == IF k <= Len(answers) THEN {answers[k]} ELSE Answers

Recorded(k, a) == IF k <= Len(answers) THEN answers ELSE Append(answers, a)

\* mutant: the fetcher retries every status from 400 on
IsRetryableStatus_AnyError(status_code) == status_code >= 400

\* fetcher._is_retryable_status
IsRetryableStatus(status_code) ==
    status_code = 429 \/ (500 <= status_code /\ status_code < 600)

\* mutant: the client does not retry a 429
LLMClientIsRetryableStatus_No429(status_code) ==
    500 <= status_code /\ status_code < 600

\* LLMClient._is_retryable_status
LLMClientIsRetryableStatus(status_code) ==
    status_code = 429 \/ (500 <= status_code /\ status_code < 600)

\* mutant: the last attempt is retried like the others
NotLastAttempt_Always(attempt) == attempt >= 1

\* fetcher.py:45,63: attempt < config.retries
NotLastAttempt(attempt) == attempt < retries

\* fetcher.py:46,64: asyncio.sleep(0.5 * (2 ** (attempt - 1))), in milliseconds
FetchBackoff(attempt) == 500 * 2^(attempt - 1)

\* llm_client.py:155,165,171: asyncio.sleep(0.5 * (2 ** (attempt - 1)))
GeminiBackoff(attempt) == 500 * 2^(attempt - 1)

\* f"http_error:{response.status_code}"
HttpError(status_code) ==
    CASE status_code = 404 -> "http_error:404"
      [] status_code = 429 -> "http_error:429"
      [] status_code = 503 -> "http_error:503"
      [] OTHER -> "http_error:other"

\* f"gemini_http_error:{status_code}"
GeminiHttpError(status_code) ==
    CASE status_code = 302 -> "gemini_http_error:302"
      [] status_code = 404 -> "gemini_http_error:404"
      [] status_code = 429 -> "gemini_http_error:429"
      [] status_code = 503 -> "gemini_http_error:503"
      [] OTHER -> "gemini_http_error:other"

\* mutant: the error of the result is last_error as it is
FetchError_LastError(last_error) == last_error

\* fetcher.py:74: last_error or "fetch_failed"
FetchError(last_error) == Or(last_error, "fetch_failed")

\* fetcher.py:71-76: the return after the loop
FetchBreak(f) ==
    [f EXCEPT !.pc = "done",
              !.result = FetchResult(f.status_code, None, FetchError(f.last_error), FALSE)]

\* fetcher.py:40: the next value of range(1, config.retries + 1), or the
\* end of the loop
FetchForNext(f) ==
    IF f.attempt + 1 <= retries
    THEN [f EXCEPT !.attempt = f.attempt + 1, !.pc = "get"]
    ELSE FetchBreak(f)

\* fetcher.py:46-47, 64-65: sleep and continue
FetchSleep(f) ==
    FetchForNext([f EXCEPT !.sleeps = Append(f.sleeps, FetchBackoff(f.attempt))])

\* fetcher.py:24-40: the cache is asked first
FetchStart ==
    /\ fetcher.pc = "idle"
    /\ LET cached_html == CacheGet(cache, "html", TheUrl) IN
       fetcher' =
           IF cached_html.raised
           THEN [fetcher EXCEPT !.pc = "raised"]
           ELSE IF Truthy(cached_html.value)
           THEN [fetcher EXCEPT !.pc = "done",
                    !.result = FetchResult(200, cached_html.value, None, TRUE)]
           ELSE FetchForNext(fetcher)
    /\ UNCHANGED <<runVars, cache_call, cache, retries, answers, gemini>>

\* fetcher.py:41-69: one attempt
FetchGet ==
    /\ fetcher.pc = "get"
    /\ \E a \in AnswerTo(fetcher.attempt) :
          LET f == [fetcher EXCEPT !.gets = fetcher.gets + 1]
              got == [f EXCEPT !.status_code = a.status_code]
              failed == [f EXCEPT !.last_error = a.message]
          IN  /\ answers' = Recorded(fetcher.attempt, a)
              /\ IF a.kind = "response"
                 THEN IF IsRetryableStatus(a.status_code) /\ NotLastAttempt(f.attempt)
                      THEN fetcher' = FetchSleep(got) /\ UNCHANGED cache
                      ELSE IF a.status_code >= 400
                      THEN /\ fetcher' = FetchBreak(
                                [got EXCEPT !.last_error = HttpError(a.status_code)])
                           /\ UNCHANGED cache
                      ELSE /\ cache' = CachePut(cache, "html", TheUrl, a.text)
                           /\ fetcher' = [got EXCEPT !.pc = "done",
                                 !.result = FetchResult(a.status_code, a.text, None, FALSE)]
                 ELSE IF a.kind = "timeout"
                 THEN /\ fetcher' = IF NotLastAttempt(f.attempt)
                                    THEN FetchSleep(failed) ELSE FetchBreak(failed)
                      /\ UNCHANGED cache
                 ELSE fetcher' = FetchBreak(failed) /\ UNCHANGED cache
    /\ UNCHANGED <<runVars, cache_call, retries, gemini>>

\* The URL is fetched a second time, with the cache the first fetch left
FetchAgain ==
    /\ fetcher.pc = "done"
    /\ ~fetcher.first.set
    /\ fetcher' = [IdleFetcher EXCEPT !.first = fetcher.result]
    /\ UNCHANGED <<runVars, cache_call, cache, retries, answers, gemini>>

\* llm_client.py:144,176-177: the next value of the range, or the else
\* branch of the for loop
GeminiForNext(g) ==
    IF g.attempt + 1 <= retries
    THEN [g EXCEPT !.attempt = g.attempt + 1, !.pc = "post"]
    ELSE [g EXCEPT !.pc = "raised", !.outcome = "gemini_request_error:None"]

GeminiSleep(g) ==
    GeminiForNext([g EXCEPT !.sleeps = Append(g.sleeps, GeminiBackoff(g.attempt))])

GeminiRaise(g, message) == [g EXCEPT !.pc = "raised", !.outcome = message]

\* httpx.Response.raise_for_status raises for 4xx and 5xx; for 3xx it
\* depends on the version of httpx
RaiseForStatus(status_code) ==
    IF status_code >= 400 THEN {TRUE}
    ELSE IF status_code >= 300 THEN {TRUE, FALSE}
    ELSE {FALSE}

\* llm_client.py:143-144
GeminiStart ==
    /\ gemini.pc = "idle"
    /\ gemini' = GeminiForNext(gemini)
    /\ UNCHANGED <<runVars, cache_call, cache, retries, answers, fetcher>>

\* llm_client.py:145-175: one attempt
GeminiPost ==
    /\ gemini.pc = "post"
    /\ \E a \in AnswerTo(gemini.attempt) : \E raises \in RaiseForStatus(a.status_code) :
          LET g == [gemini EXCEPT !.posts = gemini.posts + 1] IN
          /\ answers' = Recorded(gemini.attempt, a)
          /\ gemini' =
                IF a.kind = "response"
                THEN IF LLMClientIsRetryableStatus(a.status_code) /\ g.attempt < retries
                     THEN GeminiSleep(g)
                     ELSE IF raises
                     THEN IF LLMClientIsRetryableStatus(a.status_code)
                             /\ g.attempt < retries
                          THEN GeminiSleep(g)
                          ELSE GeminiRaise(g, GeminiHttpError(a.status_code))
                     ELSE [g EXCEPT !.pc = "done", !.outcome = "response"]
                ELSE IF a.kind = "timeout"
                THEN IF g.attempt < retries
                     THEN GeminiSleep(g)
                     ELSE GeminiRaise(g, "gemini_request_error:")
                ELSE GeminiRaise(g, a.message)
    /\ UNCHANGED <<runVars, cache_call, cache, retries, fetcher>>

\* The html entry of the URL when the fetch starts: none, a body, or bytes
\* that are not UTF-8; every retries value, the validator-free int field
RetryInit ==
    /\ config = [concurrency |-> 1, dry_run |-> FALSE, api_key |-> "k",
                 base_url |-> GeminiUrl]
    /\ selected_items = <<>>
    /\ skipped_items = <<>>
    /\ run_pc = "selected"
    /\ item_records = <<>>
    /\ report = NoReport
    /\ digest_writes = 0
    /\ semaphore = 0
    /\ pc = [u \in Urls |-> "none"]
    /\ result = [u \in Urls |-> ItemResult(None, u)]
    /\ call = [u \in Urls |-> NoCall]
    /\ api_used = None
    /\ \E entry \in {Absent, HtmlBody, Undecodable} :
          cache = [ns \in Namespaces |-> [u \in Urls |->
                      IF ns = "html" /\ u = TheUrl THEN entry ELSE Absent]]
    /\ retries \in -1..MaxRetries
    /\ answers = <<>>
    /\ fetcher = IdleFetcher
    /\ gemini = IdleGemini
    /\ completed = <<>>
    /\ cache_call = NoCacheCall
    /\ previous = <<>>
    /\ IngestIdle
    /\ CliIdle

RetryNext ==
    \/ FetchStart
    \/ FetchGet
    \/ FetchAgain
    \/ GeminiStart
    \/ GeminiPost

RetrySpec == RetryInit /\ [][RetryNext]_vars

\* --------------------------------------------------- the cache on its own
\* FileCache.put and FileCache.get called in any order on one cache
\* directory that starts empty. A key is the file cache_key(url,
\* discriminator) names.

\* What is put: a page, a page above max_html_bytes, a text with CR LF
Payloads == {HtmlBody, HugeHtmlBody, CrLfText}

\* cache.FileCache.put
Put(namespace, key, data) ==
    /\ cache_call.puts < MaxPuts
    /\ cache' = CachePut(cache, namespace, key, data)
    /\ cache_call' =
          [op |-> "put", namespace |-> namespace, key |-> key, data |-> data,
           value |-> None, raised |-> FALSE,
           put |-> [set |-> TRUE, namespace |-> namespace, key |-> key, data |-> data],
           puts |-> cache_call.puts + 1]
    /\ UNCHANGED <<runVars, retries, answers, fetcher, gemini>>

\* cache.FileCache.get
Get(namespace, key) ==
    /\ LET got == CacheGet(cache, namespace, key) IN
       cache_call' =
          [cache_call EXCEPT !.op = "get", !.namespace = namespace, !.key = key,
                             !.data = None, !.value = got.value, !.raised = got.raised]
    /\ UNCHANGED <<runVars, cache, retries, answers, fetcher, gemini>>

\* FileCache.__init__ on a new directory; no run, no fetch
CacheInit ==
    /\ config = [concurrency |-> 1, dry_run |-> FALSE, api_key |-> "k",
                 base_url |-> OpenAiUrl]
    /\ selected_items = <<>>
    /\ skipped_items = <<>>
    /\ run_pc = "selected"
    /\ item_records = <<>>
    /\ report = NoReport
    /\ digest_writes = 0
    /\ semaphore = 0
    /\ pc = [u \in Urls |-> "none"]
    /\ result = [u \in Urls |-> ItemResult(None, u)]
    /\ call = [u \in Urls |-> NoCall]
    /\ api_used = None
    /\ cache = [ns \in Namespaces |-> [u \in Urls |-> Absent]]
    /\ retries = DefaultRetries
    /\ answers = <<>>
    /\ fetcher = IdleFetcher
    /\ gemini = IdleGemini
    /\ completed = <<>>
    /\ cache_call = NoCacheCall
    /\ previous = <<>>
    /\ IngestIdle
    /\ CliIdle

CacheNext ==
    \/ \E namespace \in Namespaces, key \in Urls, data \in Payloads :
          Put(namespace, key, data)
    \/ \E namespace \in Namespaces, key \in Urls : Get(namespace, key)

CacheSpec == CacheInit /\ [][CacheNext]_vars

\* ------------------------------------------------------ the URL functions
\* normalize_url on its own.  A URL string is the sequence of its tokens: a
\* token is one delimiter character or a maximal run of other characters.

\* str.lower
Lower(t) ==
    CASE t = "HTTPS" -> "https"
      [] t = "Example.COM" -> "example.com"
      [] t = "REF" -> "ref"
      [] OTHER -> t

\* The place of a token in code point order, the order in which Python
\* compares str
Rank(t) ==
    LET CodePoints ==
            <<"", " ", "1", "2", "REF", "a", "b", "page", "path", "post", "ref",
              "utm_source", "x">>
    IN  CHOOSE i \in 1..Len(CodePoints) : CodePoints[i] = t

\* str.find for a set of delimiters: the first index, 0 when there is none
Find(s, ds) ==
    IF \E i \in 1..Len(s) : s[i] \in ds
    THEN CHOOSE i \in 1..Len(s) :
            s[i] \in ds /\ \A j \in 1..(i - 1) : s[j] \notin ds
    ELSE 0

\* str.strip
Strip(s) ==
    LET kept == {i \in 1..Len(s) : s[i] # " "}
    IN  IF kept = {}
        THEN <<>>
        ELSE SubSeq(s, CHOOSE i \in kept : \A j \in kept : i <= j,
                       CHOOSE i \in kept : \A j \in kept : j <= i)

\* urllib.parse.urlsplit: a scheme before the first colon, a netloc after
\* "//" up to the next "/", "?" or "#", the fragment after the first "#",
\* the query after the first "?", the path what is left
Urlsplit(s) ==
    LET \* the runs of characters accepted as a scheme before a colon
        SchemeLike ==
            {"https", "HTTPS", "http", "example.com", "Example.COM",
             "page", "path", "post"}
        hasScheme == Len(s) >= 2 /\ s[1] \in SchemeLike /\ s[2] = ":"
        afterScheme == IF hasScheme THEN SubSeq(s, 3, Len(s)) ELSE s
        hasNetloc ==
            Len(afterScheme) >= 2 /\ afterScheme[1] = "/" /\ afterScheme[2] = "/"
        authority == SubSeq(afterScheme, 3, Len(afterScheme))
        stop == Find(authority, {"/", "?", "#"})
        afterNetloc ==
            IF ~hasNetloc THEN afterScheme
            ELSE IF stop = 0 THEN <<>> ELSE SubSeq(authority, stop, Len(authority))
        hash == Find(afterNetloc, {"#"})
        beforeHash ==
            IF hash = 0 THEN afterNetloc ELSE SubSeq(afterNetloc, 1, hash - 1)
        mark == Find(beforeHash, {"?"})
    IN  [scheme |-> IF hasScheme THEN Lower(s[1]) ELSE "",
         netloc |-> IF ~hasNetloc THEN <<>>
                    ELSE IF stop = 0 THEN authority
                    ELSE SubSeq(authority, 1, stop - 1),
         path |-> IF mark = 0 THEN beforeHash ELSE SubSeq(beforeHash, 1, mark - 1),
         query |-> IF mark = 0 THEN <<>> ELSE SubSeq(beforeHash, mark + 1, Len(beforeHash)),
         fragment |-> IF hash = 0 THEN <<>> ELSE SubSeq(afterNetloc, hash + 1, Len(afterNetloc))]

\* urllib.parse.urlunsplit
Urlunsplit(scheme, netloc, path, query, fragment) ==
    LET \* urllib.parse.uses_netloc, the members met here
        UsesNetloc == {"http", "https"}
        doubleSlash == Len(path) >= 2 /\ path[1] = "/" /\ path[2] = "/"
        rooted == IF path # <<>> /\ path[1] # "/" THEN <<"/">> \o path ELSE path
        located ==
            IF netloc # <<>> \/ (scheme \in UsesNetloc /\ ~doubleSlash)
            THEN <<"/", "/">> \o netloc \o rooted
            ELSE path
        schemed == IF scheme # "" THEN <<scheme, ":">> \o located ELSE located
        queried == IF query # <<>> THEN schemed \o <<"?">> \o query ELSE schemed
    IN  IF fragment # <<>> THEN queried \o <<"#">> \o fragment ELSE queried

RECURSIVE Split(_, _)
\* str.split(sep)
Split(s, sep) ==
    LET i == Find(s, {sep})
    IN  IF i = 0 THEN <<s>>
        ELSE <<SubSeq(s, 1, i - 1)>> \o Split(SubSeq(s, i + 1, Len(s)), sep)

RECURSIVE ParsePieces(_)
ParsePieces(pieces) ==
    IF pieces = <<>> THEN <<>>
    ELSE LET \* urllib.parse.unquote after replace("+", " ")
             Unquote(t) == IF t \in {"%20", "+"} THEN " " ELSE t
             Text(s) == IF s = <<>> THEN "" ELSE Unquote(s[1])
             name_value == Head(pieces)
             eq == Find(name_value, {"="})
             name == IF eq = 0 THEN name_value ELSE SubSeq(name_value, 1, eq - 1)
             value == IF eq = 0 THEN <<>> ELSE SubSeq(name_value, eq + 1, Len(name_value))
         IN  (IF name_value = <<>> THEN <<>> ELSE <<<<Text(name), Text(value)>>>>)
                 \o ParsePieces(Tail(pieces))

\* urllib.parse.parse_qsl(qs, keep_blank_values=True): the pairs of the
\* pieces between "&", empty pieces dropped, a piece without "=" given
\* the value ""
ParseQsl(qs) == IF qs = <<>> THEN <<>> ELSE ParsePieces(Split(qs, "&"))

RECURSIVE SortPairs(_)
\* list.sort(key=lambda x: (x[0], x[1])), a stable sort
SortPairs(pairs) ==
    IF pairs = <<>> THEN <<>>
    ELSE LET \* the order of the tuples (x[0], x[1])
             PairBefore(p, q) ==
                 \/ Rank(p[1]) < Rank(q[1])
                 \/ Rank(p[1]) = Rank(q[1]) /\ Rank(p[2]) < Rank(q[2])
             first ==
                 CHOOSE i \in 1..Len(pairs) :
                     /\ \A j \in 1..Len(pairs) : ~PairBefore(pairs[j], pairs[i])
                     /\ \A j \in 1..(i - 1) : PairBefore(pairs[i], pairs[j])
             others == [k \in 1..(Len(pairs) - 1) |->
                           IF k < first THEN pairs[k] ELSE pairs[k + 1]]
         IN  <<pairs[first]>> \o SortPairs(others)

RECURSIVE Urlencode(_)
\* urllib.parse.urlencode
Urlencode(pairs) ==
    IF pairs = <<>> THEN <<>>
    ELSE LET \* urllib.parse.quote_plus
             QuotePlus(t) == IF t = " " THEN "+" ELSE t
             quoted(t) == IF t = "" THEN <<>> ELSE <<QuotePlus(t)>>
             one == quoted(Head(pairs)[1]) \o <<"=">> \o quoted(Head(pairs)[2])
         IN  IF Len(pairs) = 1 THEN one
             ELSE one \o <<"&">> \o Urlencode(Tail(pairs))

TRACKING_KEYS == {"ref", "source", "fbclid", "gclid", "mc_cid", "mc_eid"}

\* str.startswith("utm_") for the keys met here
StartsWithUtm(key) == key \in {"utm_source"}

\* normalize_url, lines 22-24: an empty path is "/", and a path other than
\* "/" that ends with "/" loses that one character
DropSlash(path) ==
    LET p == IF path = <<>> THEN <<"/">> ELSE path
    IN  IF p # <<"/">> /\ p[Len(p)] = "/" THEN SubSeq(p, 1, Len(p) - 1) ELSE p

normalize_url(u) ==
    LET split == Urlsplit(Strip(u))
        scheme == IF Lower(split.scheme) = "" THEN "https" ELSE Lower(split.scheme)
        netloc == [k \in 1..Len(split.netloc) |-> Lower(split.netloc[k])]
        path == DropSlash(split.path)
        pairs == ParseQsl(split.query)
        filtered == SelectSeq(pairs, LAMBDA p :
                        ~(StartsWithUtm(Lower(p[1])) \/ Lower(p[1]) \in TRACKING_KEYS))
    IN  Urlunsplit(scheme, netloc, path, Urlencode(SortPairs(filtered)), <<>>)

\* The variables of the pipeline, its retry loops and its cache
pipelineVars ==
    <<config, selected_items, skipped_items, run_pc, item_records, report,
      digest_writes, semaphore, pc, result, call, api_used, cache, retries,
      answers, fetcher, gemini, completed, cache_call, previous>>

\* No run, no fetch, an empty cache directory
PipelineIdle ==
    /\ config = [concurrency |-> 1, dry_run |-> FALSE, api_key |-> "k",
                 base_url |-> OpenAiUrl]
    /\ selected_items = <<>>
    /\ skipped_items = <<>>
    /\ run_pc = "selected"
    /\ item_records = <<>>
    /\ report = NoReport
    /\ digest_writes = 0
    /\ semaphore = 0
    /\ pc = [u \in Urls |-> "none"]
    /\ result = [u \in Urls |-> ItemResult(None, u)]
    /\ call = [u \in Urls |-> NoCall]
    /\ api_used = None
    /\ cache = [ns \in Namespaces |-> [u \in Urls |-> Absent]]
    /\ retries = DefaultRetries
    /\ answers = <<>>
    /\ fetcher = IdleFetcher
    /\ gemini = IdleGemini
    /\ completed = <<>>
    /\ cache_call = NoCacheCall
    /\ previous = <<>>

\* The URLs normalized: with or without leading white space, a scheme in
\* either case or none, a host in either case, a path with no, one or two
\* trailing slashes, a query with tracking keys, blank values, escapes and
\* empty pieces, a fragment or none
InputUrls ==
    LET Paths ==
            {<<>>, <<"/">>, <<"/", "path">>, <<"/", "path", "/">>,
             <<"/", "path", "/", "/">>}
        Queries ==
            {<<>>,
             <<"a", "=", "1">>,
             <<"b", "=", "2", "&", "a", "=", "1">>,
             <<"utm_source", "=", "x", "&", "b", "=", "2">>,
             <<"REF", "=", "1", "&", "a", "=", "%20">>,
             <<"a">>,
             <<"a", "=", "2", "&", "&", "a", "=", "1">>}
        UrlString(lead, scheme, host, path, query, fragment) ==
            lead \o (IF scheme = "" THEN <<>> ELSE <<scheme, ":">>)
                 \o <<"/", "/", host>> \o path
                 \o (IF query = <<>> THEN <<>> ELSE <<"?">> \o query)
                 \o (IF fragment = <<>> THEN <<>> ELSE <<"#">> \o fragment)
    IN  {UrlString(lead, scheme, host, path, query, fragment) :
            lead \in {<<>>, <<" ">>}, scheme \in {"https", "HTTPS", "http", ""},
            host \in {"example.com", "Example.COM"},
            path \in Paths, query \in Queries, fragment \in {<<>>, <<"frag">>}}

UrlInit ==
    /\ PipelineIdle
    /\ url_in \in InputUrls
    /\ normalized = <<>>
    /\ items = <<>>
    /\ since = 0
    /\ max_items = 0
    /\ ingest_pc = "idle"
    /\ deduped = <<>>
    /\ selected = <<>>
    /\ skipped = <<>>
    /\ CliIdle

\* One more call of normalize_url, on the result of the last one
Normalize ==
    /\ Len(normalized) < MaxNormalize
    /\ normalized' =
           Append(normalized,
                  normalize_url(IF normalized = <<>> THEN url_in
                                ELSE normalized[Len(normalized)]))
    /\ UNCHANGED <<pipelineVars, cliVars, url_in, items, since, max_items, ingest_pc,
                   deduped, selected, skipped>>

UrlNext == Normalize

UrlSpec == UrlInit /\ [][UrlNext]_vars

\* ---------------------------------------------------------- the ingestion
\* run between parse_feeds and process_one: deduplicate, then select_items.

\* models.SourceType
FEED == "feed"
DIRECT == "direct"

\* The article URLs of the candidates: two spellings of one post, that
\* differ in a tracking parameter, and two other pages
ItemUrls ==
    LET Page(name) == <<"https", ":", "/", "/", "example.com", "/", name>>
    IN  {Page("post"), Page("post") \o <<"?", "utm_source", "=", "x">>,
         Page("path"), Page("page")}

\* FeedItem.sort_date, published or updated, as an instant; 0: None
Dates == 0..MaxDate

\* A FeedItem as feed_parser and run construct it
FeedItem(link, sort_date, source_type) ==
    [url |-> link, normalized_url |-> normalize_url(link),
     sort_date |-> sort_date, source_type |-> source_type]

\* The entries of the feeds, dated or not, and run's direct_items, undated
Candidates ==
    {FeedItem(link, d, FEED) : link \in ItemUrls, d \in Dates}
        \cup {FeedItem(link, 0, DIRECT) : link \in ItemUrls}

\* mutant: the later candidate of a normalized URL always replaces the earlier
Replaces_Always(existing, current) == TRUE

\* deduplicate, line 48
Replaces(existing, current) ==
    existing.source_type = DIRECT /\ current.source_type = FEED

RECURSIVE Deduped(_, _)
\* deduplicate's loop: the values of the OrderedDict, in the order in which
\* their keys were inserted, after the items of the list
Deduped(values, list) ==
    IF list = <<>> THEN values
    ELSE LET item == Head(list)
             key == normalize_url(item.url)
             current == [item EXCEPT !.normalized_url = key]
             held == {k \in 1..Len(values) : values[k].normalized_url = key}
         IN  IF held = {}
             THEN Deduped(Append(values, current), Tail(list))
             ELSE LET k == CHOOSE k \in held : TRUE
                  IN  IF Replaces(values[k], current)
                      THEN Deduped([values EXCEPT ![k] = current], Tail(list))
                      ELSE Deduped(values, Tail(list))

deduplicate(list) == Deduped(<<>>, list)

\* The order of str for two URL strings, decided by the first token in
\* which they differ
StrBefore(s, t) ==
    LET differ == {i \in 1..Len(s) : i > Len(t) \/ s[i] # t[i]}
        first == CHOOSE i \in differ : \A j \in differ : i <= j
    IN  IF differ = {}
        THEN Len(s) < Len(t)
        ELSE first <= Len(t) /\ Rank(s[first]) < Rank(t[first])

\* mutant: undated items sort first, dated items oldest first
sort_key_Oldest(item) == <<IF item.sort_date = 0 THEN 0 ELSE 1, item.sort_date, item.normalized_url>>

\* selector._sort_key
sort_key(item) ==
    IF item.sort_date = 0
    THEN <<1, 0, item.normalized_url>>
    ELSE <<0, 0 - item.sort_date, item.normalized_url>>

\* The order of the tuples that _sort_key returns
KeyBefore(a, b) ==
    \/ a[1] < b[1]
    \/ a[1] = b[1] /\ a[2] < b[2]
    \/ a[1] = b[1] /\ a[2] = b[2] /\ StrBefore(a[3], b[3])

RECURSIVE Sorted(_)
\* sorted(items, key=_sort_key), a stable sort
Sorted(list) ==
    IF list = <<>> THEN <<>>
    ELSE LET first ==
                 CHOOSE i \in 1..Len(list) :
                     /\ \A j \in 1..Len(list) :
                           ~KeyBefore(sort_key(list[j]), sort_key(list[i]))
                     /\ \A j \in 1..(i - 1) :
                           KeyBefore(sort_key(list[i]), sort_key(list[j]))
             others == [k \in 1..(Len(list) - 1) |->
                           IF k < first THEN list[k] ELSE list[k + 1]]
         IN  <<list[first]>> \o Sorted(others)

\* models.SkippedItem
SkippedItem(item, reason) ==
    [url |-> item.url, normalized_url |-> item.normalized_url,
     date |-> item.sort_date, reason |-> reason]

\* mutant: an item dated at the cutoff is older than it
OlderThanSince_AtCutoff(item, since_dt) ==
    since_dt # 0 /\ item.sort_date # 0 /\ item.sort_date <= since_dt

\* select_items, lines 51-53
OlderThanSince(item, since_dt) ==
    since_dt # 0 /\ item.sort_date # 0 /\ item.sort_date < since_dt

\* filtered[:max_items]
Prefix(list, n) == SubSeq(list, 1, IF n < Len(list) THEN n ELSE Len(list))

\* mutant: the slice of the skipped items starts one item late
Suffix_OneLate(list, n) == SubSeq(list, n + 2, Len(list))

\* filtered[max_items:]
Suffix(list, n) == SubSeq(list, n + 1, Len(list))

\* select_items: [selected, skipped]
select_items(list, since_dt, cap) ==
    LET sorted_items == Sorted(list)
        filtered == SelectSeq(sorted_items, LAMBDA item : ~OlderThanSince(item, since_dt))
        old == SelectSeq(sorted_items, LAMBDA item : OlderThanSince(item, since_dt))
        older == [k \in 1..Len(old) |-> SkippedItem(old[k], "older_than_since")]
        rest == Suffix(filtered, cap)
    IN  IF cap = 0
        THEN [selected |-> filtered, skipped |-> older]
        ELSE [selected |-> Prefix(filtered, cap),
              skipped |-> older \o
                  [k \in 1..Len(rest) |-> SkippedItem(rest[k], "max_items_limit")]]

\* Any list of candidates, any cutoff or none, any max_items that the
\* validator of Config lets through or none
IngestInit ==
    /\ PipelineIdle
    /\ url_in = <<>>
    /\ normalized = <<>>
    /\ \E n \in 0..MaxCandidates : items \in [1..n -> Candidates]
    /\ since \in Dates
    /\ max_items \in 0..MaxCap
    /\ ingest_pc = "deduplicate"
    /\ deduped = <<>>
    /\ selected = <<>>
    /\ skipped = <<>>
    /\ CliIdle

\* run, line 57
Deduplicate ==
    /\ ingest_pc = "deduplicate"
    /\ deduped' = deduplicate(items)
    /\ ingest_pc' = "select_items"
    /\ UNCHANGED <<pipelineVars, cliVars, url_in, normalized, items, since, max_items,
                   selected, skipped>>

\* run, line 58
SelectItems ==
    /\ ingest_pc = "select_items"
    /\ LET chosen == select_items(deduped, since, max_items)
       IN  /\ selected' = chosen.selected
           /\ skipped' = chosen.skipped
    /\ ingest_pc' = "selected"
    /\ UNCHANGED <<pipelineVars, cliVars, url_in, normalized, items, since, max_items,
                   deduped>>

IngestNext == Deduplicate \/ SelectItems

IngestSpec == IngestInit /\ [][IngestNext]_vars

\* ------------------------------------------------------ the command line
\* main, the digest command and the run it starts, the pipeline as one step.

\* The options of a digest command line: --max-items and --concurrency
\* given or not, --since a date, something else or not given, --json,
\* a --feeds-file that reads as UTF-8 or does not, and an option that click
\* rejects (a --concurrency that is no integer, a --feeds-file that does
\* not exist)
Argvs ==
    [max_items : {Unset, 0, 1}, concurrency : {Unset, 0, 2},
     since : {None, "2026-02-12", "soon"}, json_output : BOOLEAN,
     feeds_file : {None, "feeds.txt", Undecodable}, usage_error : BOOLEAN]

\* Config.validate_max_items, Config.validate_concurrency: the fields that
\* do not validate, in the order of the fields of Config
InvalidFields(options) ==
    (IF options.max_items # Unset /\ options.max_items < 1
     THEN <<"max_items">> ELSE <<>>)
        \o (IF options.concurrency # Unset /\ options.concurrency < 1
            THEN <<"concurrency">> ELSE <<>>)

RECURSIVE ErrorLines(_)
\* The lines of str(ValidationError) after its first: for each error its
\* field, its message, and a pointer to the documentation of the error type
ErrorLines(fields) ==
    IF fields = <<>> THEN <<>>
    ELSE <<Head(fields), "  Value error, " \o Head(fields) \o " must be >= 1",
           "    For further information visit errors.pydantic.dev">>
             \o ErrorLines(Tail(fields))

\* str(exc) of the pydantic ValidationError that Config(**overrides) raises
ValidationErrorText(fields) ==
    <<IF Len(fields) = 1 THEN "1 validation error for Config"
      ELSE "2 validation errors for Config">> \o ErrorLines(fields)

\* click.echo(f"{prefix}{exc}", err=True): the lines that stderr gains,
\* each line its pieces
Echo(prefix, text) ==
    [k \in 1..Len(text) |-> IF k = 1 THEN <<prefix, text[1]>> ELSE <<text[k]>>]

\* parse_since_value raises ValueError for a value that is no date
InvalidSince(raw) == raw = "soon"

\* What asyncio.run(run(config)) can end with: the report, or an exception
\* of the pipeline (a cache entry that is not UTF-8, a transport that fails
\* in parse_feeds)
PipelineExceptions == {"UnicodeDecodeError", "ConnectError"}

\* mutant: main returns 1 after an error was printed
MainExitCode_OneOnError(printed) == IF printed = <<>> THEN 0 ELSE 1

\* main, line 188
MainExitCode(printed) == 0

CliInit ==
    /\ PipelineIdle
    /\ IngestIdle
    /\ argv \in Argvs
    /\ cli_pc = "main"
    /\ outcome = None
    /\ stderr = <<>>
    /\ stdout = 0
    /\ exit_code = Unset

\* cli.main(standalone_mode=False) up to the body of digest: click raises
\* UsageError for an option it rejects, and main prints it
ParseArgs ==
    /\ cli_pc = "main"
    /\ IF argv.usage_error
       THEN /\ stderr' = stderr \o Echo("fatal error: ", <<"Invalid value">>)
            /\ cli_pc' = "returned"
       ELSE /\ cli_pc' = "digest"
            /\ UNCHANGED stderr
    /\ UNCHANGED <<pipelineVars, ingestVars, argv, outcome, stdout, exit_code>>

\* digest, lines 136-145: _read_urls_file raises out of digest for a file
\* that is not UTF-8, and main prints it
ReadUrlsFiles ==
    /\ cli_pc = "digest"
    /\ IF argv.feeds_file = Undecodable
       THEN /\ stderr' = stderr \o Echo("fatal error: ", <<"utf-8 codec cannot decode">>)
            /\ cli_pc' = "returned"
       ELSE /\ cli_pc' = "config"
            /\ UNCHANGED stderr
    /\ UNCHANGED <<pipelineVars, ingestVars, argv, outcome, stdout, exit_code>>

\* digest, lines 147-173
Validate ==
    /\ cli_pc = "config"
    /\ IF InvalidFields(argv) # <<>>
       THEN /\ stderr' = stderr \o Echo("configuration error: ",
                                         ValidationErrorText(InvalidFields(argv)))
            /\ cli_pc' = "returned"
       ELSE /\ cli_pc' = "run"
            /\ UNCHANGED stderr
    /\ UNCHANGED <<pipelineVars, ingestVars, argv, outcome, stdout, exit_code>>

\* digest, lines 175-180: the run, its digest and report, or its exception
RunPipeline ==
    /\ cli_pc = "run"
    /\ \/ /\ InvalidSince(argv.since)
          /\ outcome' = "ValueError"
          /\ stderr' = stderr \o Echo("pipeline error: ", <<"invalid --since value: soon">>)
          /\ UNCHANGED <<digest_writes, stdout>>
       \/ /\ ~InvalidSince(argv.since)
          /\ outcome' = "report"
          /\ digest_writes' = digest_writes + 1
          /\ stdout' = IF argv.json_output THEN stdout + 1 ELSE stdout
          /\ UNCHANGED stderr
       \/ /\ ~InvalidSince(argv.since)
          /\ \E exc \in PipelineExceptions :
                /\ outcome' = exc
                /\ stderr' = stderr \o Echo("pipeline error: ", <<exc>>)
          /\ UNCHANGED <<digest_writes, stdout>>
    /\ cli_pc' = "returned"
    /\ UNCHANGED <<config, selected_items, skipped_items, run_pc, item_records,
                   report, semaphore, pc, result, call, api_used, cache, retries,
                   answers, fetcher, gemini, completed, cache_call, previous>>
    /\ UNCHANGED <<ingestVars, argv, exit_code>>

\* main, line 188, and raise SystemExit(main())
MainReturn ==
    /\ cli_pc = "returned"
    /\ exit_code' = MainExitCode(stderr)
    /\ cli_pc' = "exited"
    /\ UNCHANGED <<pipelineVars, ingestVars, argv, outcome, stderr, stdout>>

CliNext ==
    \/ ParseArgs
    \/ ReadUrlsFiles
    \/ Validate
    \/ RunPipeline
    \/ MainReturn

CliSpec == CliInit /\ [][CliNext]_vars

\* ================================================================ claims
InFlight == Cardinality({u \in Urls : Holding(u)})

AwaitingLlm(u) == pc[u] \in {RESPONSES, CHAT_COMPLETIONS, GEMINI}

\* C1: in a non-dry run the number of items inside per-item processing
\* (holding the semaphore) never exceeds config.concurrency.
C1_BoundedInFlight ==
    /\ InFlight <= config.concurrency
    /\ run_pc = "gather" => semaphore + InFlight = config.concurrency

\* More items than permits: the permits are all taken, in different stages,
\* while another item waits.
C1_Witness ==
    /\ InFlight = config.concurrency
    /\ \E u \in Urls : pc[u] = "pending"
    /\ \E u \in Urls : AwaitingLlm(u)

\* C2: the report is built and the digest written only after every selected
\* item has returned its result; the digest is written at most once, exactly
\* once in a run that returns, and never while an item is in flight.
C2_DigestAfterAllItems ==
    /\ digest_writes <= 1
    /\ report.built <=> digest_writes = 1
    /\ run_pc = "returned" => digest_writes = 1
    /\ digest_writes = 1 =>
          /\ \A u \in Urls : ~Holding(u) /\ pc[u] # "pending"
          /\ ~config.dry_run =>
                \A u \in Selected :
                    /\ pc[u] = "returned"
                    /\ \E k \in 1..Len(report.items) : report.items[k] = result[u]

C2_Witness ==
    /\ digest_writes = 1
    /\ ~config.dry_run
    /\ Len(selected_items) >= 2
    /\ \E j, k \in 1..Len(report.items) :
          report.items[j].status = SUMMARIZED /\ report.items[k].status = FAILED

\* The per-item failures the pipeline records: of the fetch, of the
\* extraction, the missing credential, an error raised by summarize.
C3_RecordedErrors ==
    {"http_error:404", "fetch_failed", "empty_extraction", "extract_error:boom",
     "missing_api_key", "Not Found", "Method Not Allowed",
     "Responses API Not Supported", "Unsupported endpoint", "Internal Server Error",
     "gemini_http_error:503", "gemini_no_candidates",
     "json_parse_error_after_repair:schema_validation_error:title",
     "json_parse_error_after_repair:json_decode_error:Expecting value"}

C3_Inv ==
    /\ \A u \in Selected :
          /\ pc[u] = "returned" /\ result[u].status = FAILED =>
                 result[u].error \in C3_RecordedErrors
          /\ pc[u] = "raised" => call[u].exc = UnicodeDecodeError
    /\ run_pc = "returned" /\ ~config.dry_run =>
          \A u \in Selected :
              /\ Cardinality({k \in 1..Len(report.items) : report.items[k].url = u}) = 1
              /\ \E k \in 1..Len(report.items) :
                    /\ report.items[k] = result[u]
                    /\ report.items[k].status \in {SUMMARIZED, FAILED}

C3_Step ==
    \A u \in Urls :
        (pc[u] # "returned" /\ pc'[u] = "returned" /\ result'[u].status = FAILED) =>
            /\ \A v \in Urls \ {u} : pc'[v] = pc[v] /\ result'[v] = result[v]
            /\ run_pc' = run_pc
            /\ item_records' = item_records

\* C3: a failure of one item in any stage is recorded on that item's result
\* only: the step that fails it changes no other item and not the run, no
\* such failure leaves process_one as an exception, and the report of the
\* run holds one record for every selected item.
C3_FailureIsolated == []C3_Inv /\ [][C3_Step]_vars

C3_Witness ==
    /\ run_pc = "returned"
    /\ \E j, k \in 1..Len(report.items) :
          /\ report.items[j].status = FAILED
          /\ report.items[j].error = "Internal Server Error"
          /\ report.items[k].status = SUMMARIZED

\* C4: every run eventually finishes with the report built and the digest
\* written.
C4_RunCompletes == <>(run_pc = "returned" /\ report.built /\ digest_writes = 1)

SkippedUrls == {skipped_items[k].url : k \in 1..Len(skipped_items)}

\* C5: in a non-dry run every selected item ends summarized or failed; the
\* skipped records are those of the selector, made before processing, and a
\* skipped item is never processed nor given another status.
C5_TerminalStatus ==
    /\ ~config.dry_run =>
          /\ \A u \in Selected :
                pc[u] = "returned" => result[u].status \in {SUMMARIZED, FAILED}
          /\ \A k \in 1..Len(item_records) :
                item_records[k].url \in Selected =>
                    item_records[k].status \in {SUMMARIZED, FAILED}
    /\ \A k \in 1..Len(item_records) :
          item_records[k].status = SKIPPED <=> item_records[k].url \in SkippedUrls
    /\ \A k \in 1..Len(skipped_items) :
          /\ item_records[k] = SkippedRecord(skipped_items[k])
          /\ pc[skipped_items[k].url] = "none"
          /\ result[skipped_items[k].url].status = None

C5_Witness ==
    /\ run_pc = "returned"
    /\ ~config.dry_run
    /\ \E j, k \in 1..Len(report.items) :
          /\ report.items[j].status = SKIPPED
          /\ report.items[k].status = FAILED
          /\ report.items[k].error = "missing_api_key"

FetchOk(r) == r.fetch.set /\ Truthy(r.fetch.html) /\ ~Truthy(r.fetch.error)

ExtractionOk(r) ==
    r.extraction.set /\ Truthy(r.extraction.content) /\ ~Truthy(r.extraction.error)

\* C6: per item the stages run in the order fetch, extract, summarize:
\* extraction only after an error-free fetch with a body, summarization
\* (cache lookup or LLM call) only after an error-free extraction with
\* content; a failed stage ends the item as failed with no later stage.
C6_StageOrder ==
    \A u \in Selected :
        LET r == result[u] IN
        /\ pc[u] = "extract" \/ r.extraction.set \/ "extract_ms" \in r.timings =>
               FetchOk(r) /\ "fetch_ms" \in r.timings
        /\ pc[u] = "summarize" \/ AwaitingLlm(u) \/ call[u].prompt # None
               \/ r.summary.present \/ "summarize_ms" \in r.timings =>
               FetchOk(r) /\ ExtractionOk(r) /\ "extract_ms" \in r.timings
        /\ r.fetch.set /\ ~FetchOk(r) =>
               /\ pc[u] = "returned" /\ r.status = FAILED
               /\ ~r.extraction.set /\ r.timings = {"fetch_ms"}
        /\ r.extraction.set /\ ~ExtractionOk(r) =>
               /\ pc[u] = "returned" /\ r.status = FAILED
               /\ ~r.summary.present /\ call[u].prompt = None
               /\ r.timings = {"fetch_ms", "extract_ms"}

C6_Witness ==
    \E u, v \in Selected :
        /\ pc[u] = "returned" /\ result[u].error = "empty_extraction"
        /\ pc[v] = "returned" /\ result[v].error = "fetch_failed"
        /\ result[v].fetch.html = ""

OpenAiCompatible == ~IsGeminiNative

\* C7: on an OpenAI-compatible client the remembered dialect, once set,
\* never changes.
C7_DialectNeverChanges ==
    [][OpenAiCompatible /\ api_used # None => api_used' = api_used]_vars

\* C8: a call started while a dialect is remembered sends exactly one
\* request, of the remembered shape, also when that request fails.
C8_StickyDialect ==
    \A u \in Urls :
        OpenAiCompatible /\ call[u].prompt # None /\ call[u].start # None =>
            call[u].sent = <<Request(call[u].start, call[u].prompt)>>

C8_Witness ==
    \E u \in Urls :
        /\ OpenAiCompatible
        /\ pc[u] = "returned"
        /\ result[u].error = "Not Found"
        /\ call[u].start = RESPONSES
        /\ call[u].sent = <<Request(RESPONSES, call[u].prompt)>>

\* The messages of the errors that trigger the fallback: status 404 or 405,
\* or a message containing "not supported" or "unsupported".
TriggerMessages ==
    {"Not Found", "Method Not Allowed", "Responses API Not Supported",
     "Unsupported endpoint"}

ApiErrorMessages == {e.message : e \in ApiErrors}

C9_Inv ==
    \A u \in Urls :
        pc[u] = CHAT_COMPLETIONS /\ call[u].start = None =>
            call[u].sent = <<Request(RESPONSES, call[u].prompt),
                             Request(CHAT_COMPLETIONS, call[u].prompt)>>

C9_Step ==
    \A u \in Urls :
        /\ (pc[u] = RESPONSES /\ call[u].start = None /\ pc'[u] = "returned"
            /\ result'[u].status = FAILED) =>
               result'[u].error \notin TriggerMessages
        /\ (pc[u] = CHAT_COMPLETIONS /\ call[u].start = None
            /\ \/ pc'[u] = "returned" /\ result'[u].error \notin ApiErrorMessages
               \/ call[u].prompt = "first" /\ call'[u].prompt = "repair") =>
               api_used' = CHAT_COMPLETIONS
        /\ (pc[u] = CHAT_COMPLETIONS /\ call[u].start = None /\ pc'[u] = "returned"
            /\ result'[u].status = SUMMARIZED /\ call[u].prompt = "first") =>
               /\ result'[u].summary = SummaryT
               /\ result'[u].token_usage = "usage"

\* C9: with no remembered shape, a responses call that fails with a
\* fallback trigger is followed, within the same call, by one chat request
\* with the same prompt; when that succeeds its result is returned and the
\* recorded dialect is chat_completions.
C9_FallbackToChat == []C9_Inv /\ [][C9_Step]_vars

C9_Witness ==
    \E u \in Urls :
        /\ pc[u] = "returned"
        /\ result[u].status = SUMMARIZED
        /\ call[u].start = None
        /\ call[u].exc.status_code = 405
        /\ Len(call[u].sent) = 2
        /\ api_used = CHAT_COMPLETIONS

C10_Inv ==
    \A u \in Urls :
        /\ Len(call[u].sent) <= 2
        /\ Len(call[u].sent) = 2 =>
              /\ call[u].start = None
              /\ call[u].exc.message \in TriggerMessages
              /\ call[u].sent[1].api = RESPONSES
              /\ call[u].sent[2].api = CHAT_COMPLETIONS

C10_Step ==
    \A u \in Urls :
        /\ (AwaitingLlm(u) /\ pc'[u] = "returned"
            /\ result'[u].error \in ApiErrorMessages \cup {e.message : e \in GeminiErrors}) =>
               api_used' = api_used
        /\ (pc[u] = RESPONSES /\ pc'[u] = CHAT_COMPLETIONS) => api_used' = api_used

\* C10: with no remembered shape, a responses failure that is no fallback
\* trigger propagates: no chat request, no retry, and no failing call
\* changes the remembered dialect.
C10_ErrorPropagates == []C10_Inv /\ [][C10_Step]_vars

C10_Witness ==
    \E u \in Urls :
        /\ pc[u] = "returned"
        /\ result[u].status = FAILED
        /\ result[u].error = "Internal Server Error"
        /\ call[u].start = None
        /\ call[u].sent = <<Request(RESPONSES, "first")>>
        /\ api_used = None

PathSegments == {config.base_url.path[k] : k \in 1..Len(config.base_url.path)}

SentApis(u) == {call[u].sent[k].api : k \in 1..Len(call[u].sent)}

\* C11: a client whose base-URL host is the native host and whose path has
\* no "openai" segment sends every request, of the first and of the repair
\* prompt, through the native generateContent POST and none through the
\* responses or chat-completions API; a client whose base-URL path has an
\* "openai" segment sends none through the native POST.
C11_NativeRouting ==
    /\ (config.base_url.host = GeminiHost /\ "openai" \notin PathSegments) =>
          \A u \in Urls :
              /\ pc[u] \notin {RESPONSES, CHAT_COMPLETIONS}
              /\ SentApis(u) \subseteq {GEMINI}
              /\ call[u].prompt # None => call[u].sent = <<Request(GEMINI, call[u].prompt)>>
    /\ "openai" \in PathSegments =>
          \A u \in Urls : pc[u] # GEMINI /\ GEMINI \notin SentApis(u)

C11_Witness ==
    \E u \in Urls :
        /\ config.base_url = GeminiUrl
        /\ pc[u] = "returned"
        /\ result[u].status = SUMMARIZED
        /\ call[u].sent = <<Request(GEMINI, "repair")>>

\* C12: a summarize makes at most two calls of the dialect router; the
\* second carries the repair prompt with the first output embedded and is
\* made only when that output failed to parse; there is never a third.
C12_AtMostOneRepair ==
    \A u \in Urls :
        /\ call[u].round_trips <= 2
        /\ call[u].round_trips = 0 <=> call[u].prompt = None
        /\ call[u].round_trips = 1 <=> call[u].prompt = "first"
        /\ call[u].round_trips = 2 =>
              /\ call[u].prompt = "repair"
              /\ call[u].first_raw \in LlmTexts
              /\ ~ParseSummary(call[u].first_raw).ok

C12_Witness ==
    \E u \in Urls :
        /\ pc[u] = "returned"
        /\ call[u].round_trips = 2
        /\ call[u].first_raw = BadSchema
        /\ result[u].error = "json_parse_error_after_repair:json_decode_error:Expecting value"

AfterRepairErrors ==
    {"json_parse_error_after_repair:schema_validation_error:title",
     "json_parse_error_after_repair:json_decode_error:Expecting value"}

\* C13: when the first output and the repaired output both fail to parse,
\* the error is json_parse_error_after_repair with the detail of the parse
\* failure of the first output.
C13_OriginalDetail ==
    \A u \in Urls :
        (pc[u] = "returned" /\ result[u].error \in AfterRepairErrors) =>
            result[u].error = AfterRepairError(ParseSummary(call[u].first_raw).error)

\* ------------------------------------------------ claims on the retry loops
\* Attempt k was answered by a status 429 or 500-599 or by a timeout or
\* connection error, and was not the last attempt.
RetriedAnswer(k) ==
    /\ k < retries
    /\ \/ answers[k].kind = "timeout"
       \/ /\ answers[k].kind = "response"
          /\ answers[k].status_code = 429 \/ answers[k].status_code \in 500..599

\* 0.5 x 2^(attempt-1) seconds before each of n further attempts, in
\* milliseconds
ExpectedSleeps(n) == [k \in 1..n |-> 500 * 2^(k - 1)]

AttemptsAllowed == IF retries < 0 THEN 0 ELSE retries

\* n attempts were made and the loop is over: each but the last was retried,
\* the last was not, and the sleeps are those before the further attempts
PolicyFollowed(n, sleeps) ==
    /\ n <= AttemptsAllowed
    /\ \A k \in 1..(n - 1) : RetriedAnswer(k)
    /\ n >= 1 => ~RetriedAnswer(n)
    /\ sleeps = ExpectedSleeps(IF n = 0 THEN 0 ELSE n - 1)

FetchMissed == fetcher.pc = "done" /\ ~fetcher.result.from_cache

GeminiOver == gemini.pc \in {"done", "raised"}

\* C14: for the same retries value and the same answers of the transport
\* the native client and the fetcher make the same number of attempts (at
\* most retries), a further one exactly after a 429/5xx status or a timeout
\* or connection error on an attempt that is not the last, and sleep
\* 0.5 x 2^(attempt-1) s only before a further attempt; with retries = 2, a
\* 429 followed by a 200 makes two POSTs and succeeds.
C14_SameRetryPolicy ==
    /\ GeminiOver => PolicyFollowed(gemini.posts, gemini.sleeps)
    /\ FetchMissed => PolicyFollowed(fetcher.gets, fetcher.sleeps)
    /\ GeminiOver /\ FetchMissed =>
          gemini.posts = fetcher.gets /\ gemini.sleeps = fetcher.sleeps
    /\ (GeminiOver /\ retries = 2 /\ Len(answers) >= 2
        /\ answers[1].status_code = 429 /\ answers[2].status_code = 200) =>
          gemini.posts = 2 /\ gemini.pc = "done" /\ gemini.outcome = "response"

C14_Witness ==
    /\ retries = 2
    /\ Len(answers) = 2
    /\ answers[1].status_code = 429
    /\ answers[2].status_code = 200
    /\ gemini.pc = "done" /\ gemini.posts = 2 /\ gemini.sleeps = <<500>>
    /\ FetchMissed /\ fetcher.gets = 2 /\ fetcher.sleeps = <<500>>

HtmlEntry == cache["html"][TheUrl]

\* C15: when the html cache holds an entry for the URL, fetch returns that
\* body with from_cache true and status 200 and issues no GET; a second
\* fetch, after a first one that succeeded with a body within the size
\* ceiling, is served from the cache.
C15_CachedShortCircuit ==
    /\ HtmlEntry \notin {Absent, Undecodable} =>
          /\ fetcher.pc \in {"idle", "done"}
          /\ fetcher.pc = "done" /\ fetcher.gets = 0 =>
                fetcher.result = FetchResult(200, HtmlEntry, None, TRUE)
    /\ (fetcher.first.set /\ fetcher.first.error = None
        /\ fetcher.first.html # HugeHtmlBody /\ fetcher.pc # "idle") =>
          /\ fetcher.pc = "done"
          /\ fetcher.gets = 0
          /\ fetcher.result = FetchResult(200, fetcher.first.html, None, TRUE)

\* C16: a fetch that misses the cache issues at most config.retries GETs
\* (none for retries below 1); a further GET is issued only after an attempt
\* that was not the last and that got a 429 or 5xx status or a timeout or
\* connection error; a response below 400 ends the fetch at that attempt
\* with its body.
C16_BoundedGets ==
    /\ fetcher.gets <= AttemptsAllowed
    /\ \A k \in 1..fetcher.gets :
          /\ (k < fetcher.gets \/ fetcher.pc = "get") => RetriedAnswer(k)
          /\ (answers[k].kind = "response" /\ answers[k].status_code < 400) =>
                /\ k = fetcher.gets
                /\ fetcher.pc = "done"
                /\ fetcher.result =
                       FetchResult(answers[k].status_code, answers[k].text, None, FALSE)

C16_Witness ==
    /\ retries = 3
    /\ fetcher.pc = "done"
    /\ fetcher.gets = 3
    /\ answers[1].kind = "timeout"
    /\ answers[2].status_code = 503
    /\ answers[3].status_code = 302
    /\ fetcher.result.html = HtmlBody

C17_Errors ==
    (404 :> "http_error:404") @@ (429 :> "http_error:429") @@ (503 :> "http_error:503")

\* C17: a response with status 400 or above that is not retried (a 4xx
\* other than 429 on any attempt, a 429 or 5xx on the last attempt) ends the
\* fetch with error http_error:<status>, that status in the result, no body
\* and no further GET.
C17_HttpErrorEndsFetch ==
    \A k \in 1..fetcher.gets :
        (answers[k].kind = "response" /\ answers[k].status_code >= 400
         /\ ~RetriedAnswer(k)) =>
            /\ k = fetcher.gets
            /\ fetcher.pc = "done"
            /\ fetcher.result =
                   FetchResult(answers[k].status_code, None,
                               C17_Errors[answers[k].status_code], FALSE)

C17_Witness ==
    /\ retries = 2
    /\ fetcher.pc = "done"
    /\ fetcher.gets = 2
    /\ answers[1].status_code = 503
    /\ answers[2].status_code = 429
    /\ fetcher.result.error = "http_error:429"
    /\ fetcher.result.status_code = 429

FetchSucceeded ==
    /\ fetcher.gets >= 1
    /\ answers[fetcher.gets].kind = "response"
    /\ answers[fetcher.gets].status_code < 400

\* C18: every FetchResult fetch returns has exactly one of html and error
\* set: a cached or successful one html and no error, every other one an
\* error and no html, for every retries value and all answers.
C18_HtmlXorError ==
    /\ \A r \in {fetcher.result, fetcher.first} :
          r.set => (r.html # None) # (r.error # None)
    /\ fetcher.pc = "done" =>
          IF fetcher.result.from_cache \/ FetchSucceeded
          THEN fetcher.result.html # None /\ fetcher.result.error = None
          ELSE fetcher.result.html = None /\ Truthy(fetcher.result.error)

C18_Witness ==
    /\ retries = 0
    /\ fetcher.pc = "done"
    /\ fetcher.gets = 0
    /\ fetcher.result = FetchResult(0, None, "fetch_failed", FALSE)

\* C19: no failure of cache.get or cache.put while an item is fetched,
\* extracted or summarized fails the item or aborts the run: no process_one
\* task ends with an exception or is cancelled, and run does not raise.
C19_CacheFailureHarmless ==
    /\ run_pc # "raised"
    /\ \A u \in Urls : pc[u] \notin {"raised", "cancelled"}

\* C20: cache.get never raises: the get that opens fetch_article returns a
\* value or absent, whatever the entry holds.
C20_GetNeverRaises == fetcher.pc # "raised"

\* ---------------------------------------------------- claims on the cache
\* The get just made reads the key of the last put
GetAfterPut ==
    /\ cache_call.op = "get"
    /\ cache_call.put.set
    /\ cache_call.namespace = cache_call.put.namespace
    /\ cache_call.key = cache_call.put.key

\* C21: in every namespace, a get that follows a put of data to the same
\* key, with no put in between, returns exactly data (for html: data within
\* the size ceiling).
C21_RoundTrip ==
    (GetAfterPut
     /\ ~(cache_call.put.namespace = "html" /\ cache_call.put.data = HugeHtmlBody)) =>
        ~cache_call.raised /\ cache_call.value = cache_call.put.data

\* C22: a get of the html namespace that follows a put of an oversized
\* payload to the same URL returns absent, whatever the cache held before.
C22_OversizedThenAbsent ==
    (GetAfterPut /\ cache_call.put.namespace = "html"
     /\ cache_call.put.data = HugeHtmlBody) =>
        ~cache_call.raised /\ cache_call.value = None

C23_Inv ==
    (cache_call.op = "put" /\ cache_call.data = HugeHtmlBody
     /\ cache_call.namespace # "html") =>
        /\ ~cache_call.raised
        /\ cache[cache_call.namespace][cache_call.key] = HugeHtmlBody

C23_Step ==
    (cache_call'.op = "put" /\ cache_call'.puts = cache_call.puts + 1
     /\ cache_call'.namespace = "html" /\ cache_call'.data = HugeHtmlBody) =>
        cache' = cache /\ ~cache_call'.raised

\* C23: a put of an oversized payload to the html namespace raises nothing
\* and leaves every entry as it was, an earlier entry of the same URL
\* included; an equally large put to text, summary or meta is stored.
C23_OversizedPutIsNoOp == []C23_Inv /\ [][C23_Step]_vars

C23_Witness ==
    /\ cache_call.op = "put"
    /\ cache_call.namespace = "html"
    /\ cache_call.data = HugeHtmlBody
    /\ cache_call.puts = 2
    /\ cache["html"][cache_call.key] = HtmlBody

\* ------------------------------------------------- claims on the pipeline
SummaryEntry(u) == cache["summary"][u]

\* Cache entries that are a valid article summary, and entries that are not
ValidSummaries == {ValidJson, DumpedJson}
InvalidSummaries == {BadJson, BadSchema}

LlmStates == {RESPONSES, CHAT_COMPLETIONS, GEMINI}

C24_Inv ==
    \A u \in Urls :
        (pc[u] = "returned" /\ result[u].status = SUMMARIZED /\ call[u].prompt = None) =>
            /\ SummaryEntry(u) \in ValidSummaries
            /\ result[u].summary = SummaryT
            /\ result[u].token_usage = None
            /\ call[u] = NoCall

C24_Step ==
    \A u \in Urls :
        (pc[u] = "summarize" /\ pc'[u] \notin {"summarize", "cancelled"}) =>
            /\ SummaryEntry(u) \in ValidSummaries =>
                  /\ pc'[u] = "returned"
                  /\ result'[u].status = SUMMARIZED
                  /\ result'[u].summary = SummaryT
                  /\ result'[u].token_usage = None
                  /\ call'[u] = NoCall
            /\ SummaryEntry(u) \in InvalidSummaries =>
                  /\ pc'[u] \in LlmStates
                  /\ call'[u].round_trips = 1
                  /\ Len(call'[u].sent) = 1

C25_MissingApiKey ==
    (~config.dry_run /\ config.api_key \in {None, ""}) =>
        /\ api_used = None
        /\ \A u \in Urls :
              /\ call[u].round_trips = 0 /\ call[u].sent = <<>>
              /\ pc[u] \notin LlmStates \cup {"summarize"}
              /\ (pc[u] = "returned" /\ FetchOk(result[u]) /\ ExtractionOk(result[u])) =>
                    /\ result[u].status = FAILED
                    /\ result[u].error = "missing_api_key"
                    /\ ~result[u].summary.present

C25_Witness ==
    /\ config.api_key = ""
    /\ run_pc = "returned"
    /\ \E k \in 1..Len(report.items) :
          /\ report.items[k].error = "missing_api_key"
          /\ report.items[k].extraction.from_cache

C26_Inv ==
    config.dry_run =>
        /\ \A u \in Urls :
              pc[u] = "none" /\ result[u].status = None /\ call[u] = NoCall
        /\ api_used = None
        /\ digest_writes <= 1
        /\ run_pc = "returned" =>
              /\ digest_writes = 1
              /\ report.success_count = 0
              /\ report.failure_count = 0
              /\ \A u \in {selected_items[k] : k \in 1..Len(selected_items)} :
                    \E k \in 1..Len(report.items) :
                        report.items[k] = ItemResult(SELECTED, u)

C26_Step == config.dry_run => cache' = cache /\ semaphore' = semaphore

\* C26: with dry_run set every selected item is recorded with status
\* selected, no fetch, extraction, cache access or LLM call is made for any
\* item, the report counts no summarized and no failed item, and the digest
\* is written exactly once.
C26_DryRun == []C26_Inv /\ [][C26_Step]_vars

C26_Witness ==
    /\ config.dry_run
    /\ run_pc = "returned"
    /\ Len(selected_items) >= 1
    /\ Len(skipped_items) >= 1
    /\ report.total_selected = Len(selected_items)

C27_Inv ==
    /\ \A u \in SkippedUrls :
          pc[u] = "none" /\ ~result[u].fetch.set /\ result[u].timings = {}
    /\ (run_pc = "returned" /\ ~config.dry_run) =>
          \A k \in 1..Len(selected_items) :
              "fetch_ms" \in result[selected_items[k]].timings

C27_Step ==
    \A u \in Urls :
        /\ (pc'[u] = "fetch" /\ pc[u] # "fetch") =>
              /\ pc[u] = "pending"
              /\ \E k \in 1..Len(selected_items) : selected_items[k] = u
        /\ (pc'[u] = "pending" /\ pc[u] # "pending") => pc[u] = "none"

\* C27: only selected items are processed: fetch is invoked once for each
\* item the selector returned as selected (at most once at any time, once
\* when the run returns) and never for an item skipped by the since filter
\* or the max_items cap.
C27_OnlySelectedFetched == []C27_Inv /\ [][C27_Step]_vars

C27_Witness ==
    /\ run_pc = "returned"
    /\ ~config.dry_run
    /\ Len(selected_items) >= 1
    /\ Len(skipped_items) >= 1
    /\ skipped_items[1].reason = "max_items_limit"
    /\ result[selected_items[1]].fetch.set

\* The records of the processed items, as the report lists them
ProcessedRecords == SubSeq(report.items, Len(skipped_items) + 1, Len(report.items))

\* C28 as stated: the processed item records are listed in the order in
\* which the processing of the items completed.
C28_CompletionOrder ==
    (report.built /\ ~config.dry_run) =>
        /\ Len(ProcessedRecords) = Len(completed)
        /\ \A k \in 1..Len(completed) : ProcessedRecords[k].url = completed[k]

\* C28: the processed item records are listed in the order of the selected
\* items (the order of the arguments of gather), whatever the order in
\* which the items completed.
C28_SelectedOrder ==
    (report.built /\ ~config.dry_run) =>
        /\ Len(ProcessedRecords) = Len(selected_items)
        /\ \A k \in 1..Len(selected_items) :
              ProcessedRecords[k] = result[selected_items[k]]

C28_Witness ==
    /\ report.built
    /\ ~config.dry_run
    /\ completed = <<2, 1>>
    /\ ProcessedRecords[1].url = 1
    /\ ProcessedRecords[2].url = 2

\* C29: in every report, of a dry or a non-dry run, all skipped records
\* precede all processed (selected, summarized or failed) records.
C29_SkippedFirst ==
    report.built =>
        \A j, k \in 1..Len(report.items) :
            (report.items[j].status = SKIPPED /\ report.items[k].status # SKIPPED) => j < k

C29_Witness ==
    /\ report.built
    /\ Len(report.items) >= 2
    /\ report.items[1].status = SKIPPED
    /\ report.items[2].status \in {SELECTED, FAILED, SUMMARIZED}

RecordsWith(status) == {k \in 1..Len(report.items) : report.items[k].status = status}

\* C30: in every report success_count, failure_count and skip_count are the
\* numbers of records with status summarized, failed and skipped,
\* total_selected is the number of records that are not skipped, and the
\* three counts and the number of selected records add up to the length of
\* the item list.
C30_ReportCounts ==
    report.built =>
        /\ report.success_count = Cardinality(RecordsWith(SUMMARIZED))
        /\ report.failure_count = Cardinality(RecordsWith(FAILED))
        /\ report.skip_count = Cardinality(RecordsWith(SKIPPED))
        /\ report.total_selected = Len(report.items) - Cardinality(RecordsWith(SKIPPED))
        /\ report.success_count + report.failure_count + report.skip_count
              + Cardinality(RecordsWith(SELECTED)) = Len(report.items)

C30_Witness ==
    /\ report.built
    /\ report.skip_count = 1
    /\ report.success_count = 1
    /\ report.total_selected = 1

\* C31: normalize_url is idempotent: for every URL over the bounded schemes,
\* hosts, paths with and without trailing slashes, queries and fragments,
\* normalizing the normalized URL gives the normalized URL again.
C31_Idempotent ==
    Len(normalized) >= 2 => normalized[2] = normalized[1]

\* the vectors of tests/test_url_normalize.py
C31_TestVectors ==
    /\ normalize_url(<<"HTTPS", ":", "/", "/", "Example.COM", "/", "path", "/", "?",
                       "utm_source", "=", "x", "&", "b", "=", "2", "&", "a", "=",
                       "1", "#", "frag">>)
           = <<"https", ":", "/", "/", "example.com", "/", "path", "?",
               "a", "=", "1", "&", "b", "=", "2">>
    /\ normalize_url(<<"https", ":", "/", "/", "example.com", "/", "path", "/">>)
           = <<"https", ":", "/", "/", "example.com", "/", "path">>
    /\ normalize_url(<<"https", ":", "/", "/", "example.com", "/">>)
           = <<"https", ":", "/", "/", "example.com", "/">>


\* The entries of deduplicate's result for a normalized URL
Held(key) == {k \in 1..Len(deduped) : deduped[k].normalized_url = key}

\* C32: when a direct-sourced and a feed-sourced candidate share a normalized
\* URL, deduplicate returns exactly one entry for that normalized URL and it
\* is feed-sourced, whichever of the two came first; no entry of a
\* normalized URL that a feed-sourced candidate has is direct-sourced.
C32_FeedPreferred ==
    ingest_pc # "deduplicate" =>
        /\ \A i, j \in 1..Len(items) :
              (/\ items[i].source_type = DIRECT
               /\ items[j].source_type = FEED
               /\ normalize_url(items[i].url) = normalize_url(items[j].url))
                  => /\ Cardinality(Held(normalize_url(items[i].url))) = 1
                     /\ \A k \in Held(normalize_url(items[i].url)) :
                           deduped[k].source_type = FEED
        /\ \A j \in 1..Len(items) :
              items[j].source_type = FEED =>
                  \A k \in Held(normalize_url(items[j].url)) :
                      deduped[k].source_type = FEED

C32_Witness ==
    /\ ingest_pc = "select_items"
    /\ Len(items) = 3
    /\ items[1].source_type = DIRECT /\ items[1].url # items[2].url
    /\ items[2].source_type = FEED
    /\ items[3].source_type = DIRECT /\ items[3].url = items[2].url
    /\ \A i \in 1..3 : items[i].normalized_url = items[2].normalized_url
    /\ Len(deduped) = 1
    /\ deduped[1].source_type = FEED


\* The skipped entries of a reason
SkippedFor(reason) == {m \in 1..Len(skipped) : skipped[m].reason = reason}

\* The skipped entries that are made of a candidate
SkipsOf(item, reason) ==
    {m \in SkippedFor(reason) :
        /\ skipped[m].url = item.url
        /\ skipped[m].normalized_url = item.normalized_url
        /\ skipped[m].date = item.sort_date}

\* C33: select_items skips with reason older_than_since exactly the items
\* dated strictly earlier than the cutoff: an item dated at or after the
\* cutoff and an undated item are never skipped for that reason, and without
\* a cutoff no item is.
C33_OlderThanSince ==
    ingest_pc = "selected" =>
        /\ \A k \in 1..Len(deduped) :
              SkipsOf(deduped[k], "older_than_since") # {}
                  <=> (/\ since # 0
                       /\ deduped[k].sort_date # 0
                       /\ deduped[k].sort_date < since)
        /\ \A m \in SkippedFor("older_than_since") :
              \E k \in 1..Len(deduped) : m \in SkipsOf(deduped[k], "older_than_since")

C33_Witness ==
    /\ ingest_pc = "selected"
    /\ since = 2
    /\ Len(deduped) = 3
    /\ \E a, b, c \in 1..3 :
          /\ deduped[a].sort_date = 1 /\ SkipsOf(deduped[a], "older_than_since") # {}
          /\ deduped[b].sort_date = 2 /\ \E k \in 1..Len(selected) : selected[k] = deduped[b]
          /\ deduped[c].sort_date = 0 /\ \E k \in 1..Len(selected) : selected[k] = deduped[c]

\* The items that survive the date filter
Survivors ==
    {k \in 1..Len(deduped) :
        ~(since # 0 /\ deduped[k].sort_date # 0 /\ deduped[k].sort_date < since)}

\* The sort order: dated before undated, dated newest first, ties by
\* normalized URL ascending
Precedes(date_a, url_a, date_b, url_b) ==
    \/ date_a # 0 /\ date_b = 0
    \/ date_a # 0 /\ date_b # 0 /\ date_a > date_b
    \/ date_a = date_b /\ StrBefore(url_a, url_b)

Smaller(a, b) == IF a < b THEN a ELSE b

\* C34: with max_items set, select_items selects exactly the first
\* min(max_items, n) of the n items that survive the date filter, in sort
\* order (dated newest first, then undated, ties by normalized URL
\* ascending), and skips the others with reason max_items_limit: no item
\* skipped by the cap sorts before a selected item.
C34_MaxItems ==
    (ingest_pc = "selected" /\ max_items # 0) =>
        /\ Len(selected) = Smaller(max_items, Cardinality(Survivors))
        /\ Cardinality(SkippedFor("max_items_limit"))
              = Cardinality(Survivors) - Len(selected)
        /\ \A k \in 1..Len(selected) : \E i \in Survivors : selected[k] = deduped[i]
        /\ \A m \in SkippedFor("max_items_limit") :
              \E i \in Survivors : m \in SkipsOf(deduped[i], "max_items_limit")
        /\ \A k \in 1..(Len(selected) - 1) :
              Precedes(selected[k].sort_date, selected[k].normalized_url,
                       selected[k + 1].sort_date, selected[k + 1].normalized_url)
        /\ \A k \in 1..Len(selected) : \A m \in SkippedFor("max_items_limit") :
              Precedes(selected[k].sort_date, selected[k].normalized_url,
                       skipped[m].date, skipped[m].normalized_url)
        /\ \A m, n \in SkippedFor("max_items_limit") :
              m < n => Precedes(skipped[m].date, skipped[m].normalized_url,
                                skipped[n].date, skipped[n].normalized_url)

C34_Witness ==
    /\ ingest_pc = "selected"
    /\ max_items = 2
    /\ Len(deduped) = 3
    /\ Cardinality(Survivors) = 3
    /\ Len(selected) = 2
    /\ selected[1].sort_date = 2 /\ selected[2].sort_date = 1
    /\ Len(skipped) = 1
    /\ skipped[1].reason = "max_items_limit" /\ skipped[1].date = 0
    /\ deduped[1].sort_date = 0


\* The occurrences of a candidate in the selected list
SelectedAt(item) == {k \in 1..Len(selected) : selected[k] = item}

\* C39: select_items partitions its input: every input item appears exactly
\* once in the output, in the selected list or in the skipped list, never in
\* both and never in neither, nothing else appears, and the
\* older_than_since skips precede the max_items_limit skips.
C39_Partition ==
    ingest_pc = "selected" =>
        /\ Len(selected) + Len(skipped) = Len(deduped)
        /\ \A k \in 1..Len(deduped) :
              Cardinality(SelectedAt(deduped[k]))
                  + Cardinality(SkipsOf(deduped[k], "older_than_since"))
                  + Cardinality(SkipsOf(deduped[k], "max_items_limit")) = 1
        /\ \A m \in 1..Len(skipped) : skipped[m].reason \in SkipReasons
        /\ \A m \in SkippedFor("max_items_limit") :
              \A n \in SkippedFor("older_than_since") : n < m

C39_Witness ==
    /\ ingest_pc = "selected"
    /\ Len(deduped) = 3
    /\ Len(selected) = 1
    /\ Len(skipped) = 2
    /\ skipped[1].reason = "older_than_since"
    /\ skipped[2].reason = "max_items_limit"


\* The command line got as far as Config(**overrides) and did not validate
ConfigRejected ==
    /\ ~argv.usage_error
    /\ argv.feeds_file # Undecodable
    /\ InvalidFields(argv) # <<>>

\* The pipeline raised
PipelineRaised == outcome \notin {None, "report"}

\* C35: the digest command always finishes with exit code 0: a configuration
\* validation error prints a one-line error to stderr and the pipeline is
\* never started (no digest is written), and an exception raised by the
\* pipeline is printed to stderr instead of propagating.
C35_OneLineExitZero ==
    cli_pc = "exited" =>
        /\ exit_code = 0
        /\ ConfigRejected =>
              /\ Len(stderr) = 1
              /\ stderr[1][1] = "configuration error: "
              /\ outcome = None
              /\ digest_writes = 0
        /\ PipelineRaised =>
              /\ Len(stderr) = 1
              /\ stderr[1] = <<"pipeline error: ",
                               IF outcome = "ValueError"
                               THEN "invalid --since value: soon" ELSE outcome>>

\* What holds of C35: exit code 0, an error that starts with
\* "configuration error: " and no pipeline after a validation error, the
\* exception of the pipeline printed
C35_ExitZero ==
    cli_pc = "exited" =>
        /\ exit_code = 0
        /\ ConfigRejected =>
              /\ stderr # <<>>
              /\ stderr[1][1] = "configuration error: "
              /\ outcome = None
              /\ digest_writes = 0
        /\ PipelineRaised =>
              /\ Len(stderr) = 1
              /\ stderr[1][1] = "pipeline error: "

C35_Witness ==
    /\ cli_pc = "exited"
    /\ ConfigRejected
    /\ argv.concurrency = 0
    /\ argv.max_items = Unset
    /\ Len(stderr) = 4


\* The place of an item in a list without repetitions
Position(list, u) == CHOOSE k \in 1..Len(list) : list[k] = u

\* The records of the report that are not skipped records
Processed == {k \in 1..Len(report.items) : report.items[k].status # SKIPPED}

\* C36: the processed item records appear in the report in the order that
\* select_items gave the selected items, one record for each selected item,
\* whatever the order in which the items completed.
C36_SortedOrder ==
    report.built =>
        /\ Cardinality(Processed) = Len(selected_items)
        /\ \A k \in 1..Len(selected_items) :
              \E i \in Processed : report.items[i].url = selected_items[k]
        /\ \A i, j \in Processed :
              i < j => Position(selected_items, report.items[i].url)
                          < Position(selected_items, report.items[j].url)

C36_Witness ==
    /\ report.built
    /\ Len(selected_items) = 2
    /\ Len(completed) = 2
    /\ completed[1] = selected_items[2]
    /\ report.items[Len(report.items)].url = selected_items[2]
    /\ report.items[Len(report.items)].status = FAILED
    /\ report.items[Len(report.items) - 1].status = SUMMARIZED


\* The namespaces that process_one and fetch_article use
ItemNamespaces == {"html", "text", "summary"}

\* A step in which the task of item u moves and no other task does
OnlyMoves(u) ==
    /\ pc'[u] # pc[u]
    /\ \A v \in Urls \ {u} : pc'[v] = pc[v]

\* C37: no two items of a run share a cache entry: the files of two selected
\* items differ in every namespace, and a step that changes an entry is a
\* step of the one task whose item's URL names that entry, in the html, text
\* or summary namespace.
C37_OwnEntries ==
    [][/\ \A u, v \in Selected : \A ns \in ItemNamespaces :
             u # v => PathFor(ns, u) # PathFor(ns, v)
       /\ \A ns \in Namespaces : \A k \in Urls :
             cache'[ns][k] # cache[ns][k] =>
                 /\ ns \in ItemNamespaces
                 /\ \E u \in Selected : k = PathFor(ns, u) /\ OnlyMoves(u)]_vars

C37_Witness ==
    /\ Holding(1) /\ Holding(2)
    /\ cache["html"][1] = HtmlBody /\ cache["text"][1] = ExtractedText
    /\ cache["summary"][1] = Absent
    /\ cache["html"][2] = HtmlBody /\ cache["text"][2] = Absent

\* The URLs that reach process_one are pairwise distinct: deduplicate keeps
\* one candidate for a normalized URL, and two URLs with different
\* normalized URLs differ
C37_DistinctUrls ==
    /\ \A i, j \in 1..Len(deduped) :
          i # j => /\ deduped[i].normalized_url # deduped[j].normalized_url
                   /\ deduped[i].url # deduped[j].url
    /\ \A i, j \in 1..Len(selected) : i # j => selected[i].url # selected[j].url


\* C38: every record of a report is consistent with its status: a
\* summarized record carries a summary, a fetch record, an extraction record
\* and no error; a failed record carries an error string and no summary; a
\* skipped record carries a skip reason in {older_than_since,
\* max_items_limit} and no fetch, extraction, summary or error.
C38_RecordConsistency ==
    report.built =>
        \A k \in 1..Len(report.items) :
            LET r == report.items[k] IN
            /\ r.status = SUMMARIZED =>
                  /\ r.summary.present
                  /\ r.fetch.set
                  /\ r.extraction.set
                  /\ r.error = None
                  /\ r.skip_reason = None
            /\ r.status = FAILED =>
                  /\ r.error # None
                  /\ ~r.summary.present
                  /\ r.skip_reason = None
            /\ r.status = SKIPPED =>
                  /\ r.skip_reason \in {"older_than_since", "max_items_limit"}
                  /\ ~r.fetch.set
                  /\ ~r.extraction.set
                  /\ ~r.summary.present
                  /\ r.error = None

C38_Witness ==
    /\ report.built
    /\ Len(report.items) = 2
    /\ report.items[1].status = SUMMARIZED
    /\ report.items[1].fetch.from_cache
    /\ report.items[2].status = FAILED
    /\ report.items[2].extraction.set
    /\ report.items[2].error # None

C38_SkippedWitness ==
    /\ report.built
    /\ Len(report.items) = 2
    /\ report.items[1].status = SKIPPED
    /\ report.items[1].skip_reason = "older_than_since"
    /\ report.items[2].status = FAILED
    /\ report.items[2].fetch.set
    /\ ~report.items[2].extraction.set


\* What the run before this one ended with for an item
Before(u) == previous[Len(previous)][u]

\* The item was summarized through an LLM call by the run before this one,
\* and this run, with a credential, has processed it again
ProcessedAgain(u) ==
    /\ previous # <<>>
    /\ Before(u).status = SUMMARIZED
    /\ Before(u).round_trips > 0
    /\ HasClient
    /\ pc[u] = "returned"

\* C40: after an item was summarized through an LLM call, processing the
\* same URL again over the cache that run left ends summarized with the
\* same summary and without a request to the LLM, and without an HTTP GET
\* when the body fetched was within the html size ceiling.
C40_SummarizedAgain ==
    \A u \in Selected :
        ProcessedAgain(u) =>
            /\ result[u].status = SUMMARIZED
            /\ result[u].summary = Before(u).summary
            /\ call[u].round_trips = 0
            /\ Before(u).html # HugeHtmlBody => result[u].fetch.from_cache

\* What holds of C40: the cached body, when there is one, spares the GET,
\* and an item that gets past the fetch again ends summarized with the same
\* summary and without a request to the LLM
C40_SummarizedAfterFetch ==
    \A u \in Selected :
        ProcessedAgain(u) =>
            /\ call[u].round_trips = 0
            /\ Before(u).html # HugeHtmlBody =>
                  /\ result[u].fetch.from_cache
                  /\ result[u].status = SUMMARIZED
            /\ result[u].status = SUMMARIZED => result[u].summary = Before(u).summary
            /\ result[u].status # SUMMARIZED =>
                  /\ Before(u).html = HugeHtmlBody
                  /\ ~result[u].extraction.set

C40_Witness ==
    /\ ProcessedAgain(1)
    /\ Before(1).html = HugeHtmlBody
    /\ result[1].status = FAILED
    /\ ~result[1].fetch.from_cache

C40_CachedWitness ==
    /\ ProcessedAgain(1)
    /\ Before(1).html = HtmlBody
    /\ result[1].status = SUMMARIZED
    /\ result[1].fetch.from_cache
    /\ cache["summary"][1] = DumpedJson


====
